---- MODULE Spec2Model ----
(***************************************************************************)
(* Model of the weather station's fetch / normalize / validate / snapshot  *)
(* pipeline (weather_station/data_manager.py, live_data_manager.py).       *)
(*                                                                         *)
(* Python values are represented as follows.                               *)
(*   dict           a function whose domain is a set of strings            *)
(*   None           the record None                                        *)
(*   list of samples  a sequence of strings; the JSON null sample is Null  *)
(*   a JSON value that is not a list   the marker sequence NotAList        *)
(*   an insertion-ordered dict city -> record (locations, live_data, the   *)
(*   snapshot)      a sequence of entries [city |-> c, data |-> d]         *)
(***************************************************************************)
EXTENDS Integers, Sequences, FiniteSets, TLC

VARIABLES
    now,             \* time.time(), in seconds
    locations_file,  \* content of config.LOCATIONS_FILE (geolocations.json)
    output_file,     \* config.OUTPUT_DATA_FILE as it is on disk
    auto_update,     \* config.AUTO_UPDATE_ENABLED
    update_thread,   \* WeatherDataManager.update_thread: "None", "alive", "dead"
    should_stop,     \* WeatherDataManager.should_stop (threading.Event)
    wait_until,      \* deadline of the should_stop.wait() the update thread is in
    sched_hist,      \* history of the update thread: when it started, last checked
                     \* staleness, last started a refresh, last caught an error
    pc,              \* position of each thread in its code
    locals,          \* local variables of the _perform_update call of each thread
    fetch_log,       \* per thread: the requests.get calls of the running batch loop,
                     \* each with the city it was made for and what the backend answered
    fn_in,           \* argument of the pure function under study
    fn_out,          \* its result
    fn_out2,         \* result of applying it to its own result
    fn_pc,           \* "init", "once", "twice"
    fn_impl,         \* which class's method is applied
    upd,             \* the standalone updater tool (updaters/update_weather_information.py):
                     \* its configuration, position and local variables
    live,            \* the LiveWeatherDataManager: its locations cache and the call in progress
    life,            \* threads calling start_background_updates concurrently, and the
                     \* update threads they leave behind
    web              \* the request handlers of index.py: the last request and its answer

sysvars == <<now, locations_file, output_file, auto_update, update_thread,
             should_stop, wait_until, sched_hist, sched_hist, pc, locals, fetch_log>>
fnvars == <<fn_in, fn_out, fn_out2, fn_pc, fn_impl>>
\* the programs beside the data manager
othervars == <<upd, live, life, web>>
vars == <<sysvars, fnvars, othervars>>

-----------------------------------------------------------------------------
(* Python values *)

None == [None |-> TRUE]
Null == "null"
NotAList == <<"#not-a-list">>
EmptyDict == [k \in {} |-> <<>>]

IsNone(d) == DOMAIN d = {"None"}
\* Python truthiness of a dict-or-None value: None and {} are falsy
Falsy(d) == IsNone(d) \/ DOMAIN d = {}
\* isinstance(values, list)
IsList(v) == v # NotAList

Put(d, k, v) == [x \in (DOMAIN d) \cup {k} |-> IF x = k THEN v ELSE d[x]]

Min(S) == CHOOSE m \in S : \A n \in S : m <= n
Max(a, b) == IF a >= b THEN a ELSE b

-----------------------------------------------------------------------------
(* Forecast parameters and models *)

\* weather_params of WeatherDataManager._fetch_live_weather_data
weather_params ==
    << "temperature_2m", "relative_humidity_2m", "dew_point_2m",
       "apparent_temperature", "precipitation_probability", "precipitation",
       "rain", "showers", "snowfall", "snow_depth", "pressure_msl",
       "surface_pressure", "cloud_cover", "visibility", "uv_index",
       "wind_speed_10m", "wind_direction_10m", "wind_gusts_10m",
       "soil_temperature_0cm", "soil_moisture_0_to_1cm" >>

\* params['models'] = 'ecmwf_ifs025,ncep_gfs025,meteofrance_arpege_world025'
requested_models == << "ecmwf_ifs025", "ncep_gfs025", "meteofrance_arpege_world025" >>

Range(s) == {s[i] : i \in DOMAIN s}

\* a field name of the shape <canonicalField>_<modelId>
ModelQualified(field, model) == field \o "_" \o model

CanonicalNames == Range(weather_params) \cup {"time"}

-----------------------------------------------------------------------------
(* Field Normalizer: _normalize_field_names *)

\* field_mappings of WeatherDataManager._normalize_field_names, in dict order
field_mappings ==
    << [generic |-> "temperature_2m",
        models |-> <<"temperature_2m_ecmwf_ifs025", "temperature_2m_ncep_gfs025",
                     "temperature_2m_meteofrance_arpege_world025">>],
       [generic |-> "relative_humidity_2m",
        models |-> <<"relative_humidity_2m_ecmwf_ifs025", "relative_humidity_2m_ncep_gfs025",
                     "relative_humidity_2m_meteofrance_arpege_world025">>],
       [generic |-> "pressure_msl",
        models |-> <<"pressure_msl_ecmwf_ifs025", "pressure_msl_ncep_gfs025",
                     "pressure_msl_meteofrance_arpege_world025">>],
       [generic |-> "wind_speed_10m",
        models |-> <<"wind_speed_10m_ecmwf_ifs025", "wind_speed_10m_ncep_gfs025",
                     "wind_speed_10m_meteofrance_arpege_world025">>],
       [generic |-> "wind_direction_10m",
        models |-> <<"wind_direction_10m_ecmwf_ifs025", "wind_direction_10m_ncep_gfs025",
                     "wind_direction_10m_meteofrance_arpege_world025">>],
       [generic |-> "precipitation",
        models |-> <<"precipitation_ecmwf_ifs025", "precipitation_ncep_gfs025",
                     "precipitation_meteofrance_arpege_world025">>],
       [generic |-> "dew_point_2m",
        models |-> <<"dew_point_2m_ecmwf_ifs025", "dew_point_2m_ncep_gfs025",
                     "dew_point_2m_meteofrance_arpege_world025">>],
       [generic |-> "apparent_temperature",
        models |-> <<"apparent_temperature_ecmwf_ifs025", "apparent_temperature_ncep_gfs025",
                     "apparent_temperature_meteofrance_arpege_world025">>] >>

\* field_mappings of LiveWeatherDataManager._normalize_field_names, in dict order
live_field_mappings ==
    << [generic |-> "temperature_2m",
        models |-> <<"temperature_2m_ecmwf_ifs025", "temperature_2m_ncep_gfs025",
                     "temperature_2m_meteofrance_arpege_world025">>],
       [generic |-> "relative_humidity_2m",
        models |-> <<"relative_humidity_2m_ecmwf_ifs025", "relative_humidity_2m_ncep_gfs025",
                     "relative_humidity_2m_meteofrance_arpege_world025">>],
       [generic |-> "pressure_msl",
        models |-> <<"pressure_msl_ecmwf_ifs025", "pressure_msl_ncep_gfs025",
                     "pressure_msl_meteofrance_arpege_world025">>],
       [generic |-> "wind_speed_10m",
        models |-> <<"wind_speed_10m_ecmwf_ifs025", "wind_speed_10m_ncep_gfs025",
                     "wind_speed_10m_meteofrance_arpege_world025">>],
       [generic |-> "wind_direction_10m",
        models |-> <<"wind_direction_10m_ecmwf_ifs025", "wind_direction_10m_ncep_gfs025",
                     "wind_direction_10m_meteofrance_arpege_world025">>],
       [generic |-> "precipitation",
        models |-> <<"precipitation_ecmwf_ifs025", "precipitation_ncep_gfs025",
                     "precipitation_meteofrance_arpege_world025">>],
       [generic |-> "dew_point_2m",
        models |-> <<"dew_point_2m_ecmwf_ifs025", "dew_point_2m_ncep_gfs025",
                     "dew_point_2m_meteofrance_arpege_world025">>],
       [generic |-> "apparent_temperature",
        models |-> <<"apparent_temperature_ecmwf_ifs025", "apparent_temperature_ncep_gfs025",
                     "apparent_temperature_meteofrance_arpege_world025">>] >>

\* "Copy time field": normalized_hourly = {}, then the time field if present
CopyTime(hourly) ==
    IF "time" \in DOMAIN hourly THEN Put(EmptyDict, "time", hourly["time"])
    ELSE EmptyDict

\* the inner loop without its break: the last name that is a key of hourly wins
RECURSIVE FirstAvailable_NoBreak(_, _, _)
FirstAvailable_NoBreak(models, hourly, i) ==
    IF i > Len(models) THEN 0
    ELSE LET later == FirstAvailable_NoBreak(models, hourly, i + 1)
         IN  IF later # 0 THEN later
             ELSE IF models[i] \in DOMAIN hourly THEN i ELSE 0

\* the inner loop over model_specific_names: index of the first name that is
\* a key of hourly (the break), 0 when the loop ends without a hit
RECURSIVE FirstAvailable(_, _, _)
FirstAvailable(models, hourly, i) ==
    IF i > Len(models) THEN 0
    ELSE IF models[i] \in DOMAIN hourly THEN i
    ELSE FirstAvailable(models, hourly, i + 1)

\* the outer loop "for generic_name, model_specific_names in field_mappings.items()",
\* from row i on, threading normalized_hourly through
RECURSIVE NormalizeRows(_, _, _, _)
NormalizeRows(mappings, hourly, normalized, i) ==
    IF i > Len(mappings) THEN normalized
    ELSE LET row == mappings[i]
             j == FirstAvailable(row.models, hourly, 1)
         IN  NormalizeRows(mappings, hourly,
                           IF j = 0 THEN normalized
                           ELSE Put(normalized, row.generic, hourly[row.models[j]]),
                           i + 1)

\* any(field_name in models for models in field_mappings.values())
IsModelSpecific(mappings, field_name) ==
    \E i \in DOMAIN mappings : field_name \in Range(mappings[i].models)

\* the copy loop skipping the generic names of field_mappings as well
CopyOthers_SkipGeneric(mappings, hourly, normalized) ==
    LET copied == {f \in DOMAIN hourly :
                      /\ f \notin DOMAIN normalized
                      /\ ~IsModelSpecific(mappings, f)
                      /\ \A i \in DOMAIN mappings : f # mappings[i].generic}
    IN  [f \in (DOMAIN normalized) \cup copied |->
            IF f \in DOMAIN normalized THEN normalized[f] ELSE hourly[f]]

\* the copy loop keeping only the names the backend is asked for
CopyOthers_RequestedOnly(mappings, hourly, normalized) ==
    LET copied == {f \in DOMAIN hourly :
                      /\ f \notin DOMAIN normalized
                      /\ ~IsModelSpecific(mappings, f)
                      /\ f \in CanonicalNames}
    IN  [f \in (DOMAIN normalized) \cup copied |->
            IF f \in DOMAIN normalized THEN normalized[f] ELSE hourly[f]]

\* "Copy any fields that don't need normalization": each iteration adds at most
\* the key it looks at, so the loop is independent of the iteration order
CopyOthers(mappings, hourly, normalized) ==
    LET copied == {f \in DOMAIN hourly :
                      f \notin DOMAIN normalized /\ ~IsModelSpecific(mappings, f)}
    IN  [f \in (DOMAIN normalized) \cup copied |->
            IF f \in DOMAIN normalized THEN normalized[f] ELSE hourly[f]]

NormalizeHourly(mappings, hourly) ==
    CopyOthers(mappings, hourly,
               NormalizeRows(mappings, hourly, CopyTime(hourly), 1))

\* WeatherDataManager._normalize_field_names(data)
normalize_field_names(data) ==
    IF Falsy(data) \/ "hourly" \notin DOMAIN data THEN data
    ELSE [data EXCEPT !["hourly"] = NormalizeHourly(field_mappings, data["hourly"])]

\* LiveWeatherDataManager._normalize_field_names(data)
live_normalize_field_names(data) ==
    IF Falsy(data) \/ "hourly" \notin DOMAIN data THEN data
    ELSE [data EXCEPT !["hourly"] = NormalizeHourly(live_field_mappings, data["hourly"])]

-----------------------------------------------------------------------------
(* Quality Validator: _has_valid_weather_data *)

key_params == << "temperature_2m", "pressure_msl", "relative_humidity_2m", "wind_speed_10m" >>

\* sum(1 for v in values if v is not None)
RECURSIVE non_null_count(_)
non_null_count(values) ==
    IF values = <<>> THEN 0
    ELSE (IF Head(values) # Null THEN 1 ELSE 0) + non_null_count(Tail(values))

\* the threshold test with >= in place of >
EnoughNonNull_AtLeast(values) == 4 * non_null_count(values) >= Len(values)

\* non_null_count > len(values) * 0.25; len * 0.25 is exact in binary floating
\* point, so the comparison is the integer comparison 4 * count > len
EnoughNonNull(values) == 4 * non_null_count(values) > Len(values)

\* the loop "for param in key_params" with its early return True, from index i on
RECURSIVE AnyKeyParamValid(_, _)
AnyKeyParamValid(hourly, i) ==
    IF i > Len(key_params) THEN FALSE
    ELSE IF /\ key_params[i] \in DOMAIN hourly
            /\ IsList(hourly[key_params[i]])
            /\ EnoughNonNull(hourly[key_params[i]])
         THEN TRUE
         ELSE AnyKeyParamValid(hourly, i + 1)

has_valid_weather_data(data) ==
    IF Falsy(data) \/ "hourly" \notin DOMAIN data THEN FALSE
    ELSE AnyKeyParamValid(data["hourly"], 1)

-----------------------------------------------------------------------------
(* Bounds and configuration values *)

\* the catalog of a run holds at most MaxLocs locations
MaxLocs == 1
\* the update loop is followed through MaxCycles 6-hour waits, each with the
\* 10 minutes of an error backoff
MaxCycles == 1
\* the update thread is started at most MaxStarts times
MaxStarts == 1

\* config.DATA_UPDATE_INTERVAL default, 7 days in seconds
DATA_UPDATE_INTERVAL == 604800
\* self.should_stop.wait(30)
INITIAL_DELAY == 30
\* check_interval = 21600
CHECK_INTERVAL == 21600
\* self.should_stop.wait(600)
ERROR_BACKOFF == 600
\* time.sleep(1.1), in milliseconds
RATE_LIMIT_DELAY_MS == 1100
\* min_locations_target = 100
min_locations_target == 100
\* config.MAX_RETRIES default
MAX_RETRIES == 3
\* config.RETRY_DELAY default, in seconds
RETRY_DELAY == 5

\* the wall-clock time at which the process starts: 8 days after the epoch of
\* the model, so that a file written at time 0 is 8 days old
StartTime == 8 * 86400
MaxTime == StartTime + INITIAL_DELAY + MaxCycles * (CHECK_INTERVAL + ERROR_BACKOFF)

Threads == {"sched", "api"}

-----------------------------------------------------------------------------
(* Location catalog (geolocations.json): name -> [latitude, longitude] *)

AllCities == << "Paris", "Tokyo", "Lima", "Oslo", "Cairo" >>

Coordinates(city) ==
    CASE city = "Paris" -> <<48, 2>>
      [] city = "Tokyo" -> <<35, 139>>
      [] city = "Lima"  -> <<-12, -77>>
      [] city = "Oslo"  -> <<59, 10>>
      [] OTHER          -> <<30, 31>>

Catalog(n) == [i \in 1..n |-> [city |-> AllCities[i], coordinates |-> Coordinates(AllCities[i])]]

\* the file is unreadable or corrupt, or holds the first n cities, n = 0 being {}
LocationsFiles(maxLocs) ==
    {[readable |-> FALSE, locations |-> <<>>]}
        \cup {[readable |-> TRUE, locations |-> Catalog(n)] : n \in 0..maxLocs}

\* WeatherDataManager._load_locations: {} on any error
load_locations ==
    IF locations_file.readable THEN locations_file.locations ELSE <<>>

-----------------------------------------------------------------------------
(* Insertion-ordered dicts city -> record *)

Keys(d) == {d[i].city : i \in DOMAIN d}
IndexOf(d, city) == CHOOSE i \in DOMAIN d : d[i].city = city

\* d[city] = data
DictSet(d, city, data) ==
    IF city \in Keys(d)
    THEN [d EXCEPT ![IndexOf(d, city)] = [city |-> city, data |-> data]]
    ELSE Append(d, [city |-> city, data |-> data])

\* the dict built from a sequence of key/value pairs, as json.load builds it
RECURSIVE DictFromEntries(_)
DictFromEntries(entries) ==
    IF entries = <<>> THEN <<>>
    ELSE LET n == Len(entries)
         IN  DictSet(DictFromEntries(SubSeq(entries, 1, n - 1)), entries[n].city, entries[n].data)

-----------------------------------------------------------------------------
(* Forecast backend: what requests.get / response.json() can produce *)

HourlyOf(sample) ==
    [time |-> <<"t1", "t2">>,
     temperature_2m_ecmwf_ifs025 |-> <<sample, sample>>,
     temperature_2m_ncep_gfs025  |-> <<Null, Null>>,
     surface_pressure_ecmwf_ifs025 |-> <<sample, Null>>]

ResponseBodies ==
    { [hourly |-> HourlyOf("v1")],    \* a forecast
      [hourly |-> HourlyOf(Null)],    \* HTTP 200 with an all-null payload
      [latitude |-> 0] }              \* a JSON object without hourly

BackendResponses ==
    { [kind |-> k, body |-> None] :
          k \in {"timeout", "connection_error", "http_error", "invalid_json"} }
        \cup { [kind |-> "ok", body |-> b] : b \in ResponseBodies }

\* the cleaning loop dropping the null samples
CleanValues_DropsNulls(values) == SelectSeq(values, LAMBDA v : v # Null)

\* "Clean null values from the data": the inner loop appends None for None and
\* the value otherwise
CleanValues(values) == [i \in DOMAIN values |-> IF values[i] = Null THEN Null ELSE values[i]]

CleanHourly(hourly) ==
    [param \in DOMAIN hourly |->
        IF IsList(hourly[param]) THEN CleanValues(hourly[param]) ELSE hourly[param]]

\* WeatherDataManager._fetch_live_weather_data(city, coordinates), given what
\* the backend answers to the one requests.get it makes
fetch_live_weather_data(city, coordinates, response) ==
    IF response.kind # "ok" THEN None      \* except Exception: return None
    ELSE LET normalized == normalize_field_names(response.body)
             cleaned == IF "hourly" \in DOMAIN normalized
                        THEN [normalized EXCEPT !["hourly"] = CleanHourly(normalized["hourly"])]
                        ELSE normalized
         IN  Put(Put(Put(Put(cleaned, "city", city), "coordinates", coordinates),
                     "latitude", coordinates[1]), "longitude", coordinates[2])

-----------------------------------------------------------------------------
(* Snapshot file (output_data.json)                                        *)
(* The file is a sequence of cells, one per chunk json.dump writes: one     *)
(* cell per entry, then the cell closing the JSON object.                   *)

EndCell == [end |-> TRUE]
HoleCell == [hole |-> TRUE]

IsEntryCell(c) == DOMAIN c = {"city", "data"}

\* json.dump(fresh_data, f, indent=2), as the chunks written in order
Serialize(snapshot) == snapshot \o <<EndCell>>

\* f.write of one chunk at the writer's file position pos (1-based); bytes
\* between the end of the file and pos are a hole
WriteAt(cells, pos, c) ==
    IF pos <= Len(cells) THEN [cells EXCEPT ![pos] = c]
    ELSE cells \o [i \in 1..(pos - Len(cells) - 1) |-> HoleCell] \o <<c>>

\* the text is one complete JSON object
ValidJson(cells) ==
    /\ Len(cells) >= 1
    /\ cells[Len(cells)] = EndCell
    /\ \A i \in 1..(Len(cells) - 1) : IsEntryCell(cells[i])

NoFile == [exists |-> FALSE, cells |-> <<>>, mtime |-> 0]

\* Optional[Dict]
NoneResult == [is_none |-> TRUE, dict |-> <<>>]
Some(d) == [is_none |-> FALSE, dict |-> d]

\* WeatherDataManager.load_weather_data()
load_weather_data ==
    IF ~output_file.exists THEN NoneResult
    ELSE IF ValidJson(output_file.cells)
         THEN Some(DictFromEntries(SubSeq(output_file.cells, 1, Len(output_file.cells) - 1)))
         ELSE NoneResult          \* json.load raises, except Exception: return None

\* the staleness test with > in place of >=
should_update_data_StrictlyOlder ==
    IF ~output_file.exists THEN TRUE
    ELSE now - output_file.mtime > DATA_UPDATE_INTERVAL

\* WeatherDataManager.should_update_data()
should_update_data ==
    IF ~output_file.exists THEN TRUE
    ELSE now - output_file.mtime >= DATA_UPDATE_INTERVAL

\* a snapshot written by an earlier run of the program
OldSnapshot ==
    [i \in 1..2 |->
        [city |-> AllCities[i],
         data |-> fetch_live_weather_data(AllCities[i], Coordinates(AllCities[i]),
                                          [kind |-> "ok", body |-> [hourly |-> HourlyOf("v0")]])]]

InitialFiles ==
    { NoFile,
      [exists |-> TRUE, cells |-> Serialize(OldSnapshot), mtime |-> 0],
      [exists |-> TRUE, cells |-> Serialize(OldSnapshot), mtime |-> StartTime - 3600] }

-----------------------------------------------------------------------------
(* Threads.  "api" is the request-handling thread (the event loop: its     *)
(* handlers run one at a time); "sched" is WeatherDataManager.update_thread *)
(* running _update_loop.                                                    *)

\* locals of one _perform_update call (with those of the
\* _fetch_data_with_rate_limiting call it makes)
FreshLocals ==
    [locations |-> <<>>,     \* locations, in dict order
     idx       |-> 0,        \* number of locations the for loop has gone through
     live_data |-> <<>>,     \* live_data / fresh_data
     completed |-> 0,
     failed    |-> 0,
     offset    |-> 0,        \* chunks of the dump written so far (the file position)
     below_target |-> FALSE, \* the summary warned "Only N locations have valid data"
     result    |-> FALSE,    \* the value returned
     before    |-> NoneResult]  \* what load_weather_data returned when open() was called

InBatch(p) == pc[p] \in {"load", "fetch", "open", "dump", "ret"}

\* return value: the file, if open, is closed
Return(p, value) ==
    /\ pc' = [pc EXCEPT ![p] = "ret"]
    /\ locals' = [locals EXCEPT ![p].result = value, ![p].offset = 0]

\* WeatherDataManager.force_update, called by the force-update handler
ForceUpdate ==
    /\ pc["api"] = "idle"
    /\ pc' = [pc EXCEPT !["api"] = "load"]
    /\ locals' = [locals EXCEPT !["api"] = FreshLocals]
    /\ fetch_log' = [fetch_log EXCEPT !["api"] = <<>>]
    /\ UNCHANGED <<now, locations_file, output_file, auto_update, update_thread,
                   should_stop, wait_until, sched_hist, fnvars, othervars>>

\* _perform_update, "Load locations": locations = self._load_locations()
LoadLocations(p) ==
    /\ pc[p] = "load"
    /\ IF load_locations = <<>>
       THEN Return(p, FALSE)                       \* "No locations to fetch data for"
       ELSE /\ pc' = [pc EXCEPT ![p] = "fetch"]
            /\ locals' = [locals EXCEPT ![p].locations = load_locations]
    /\ UNCHANGED <<now, locations_file, output_file, auto_update, update_thread,
                   should_stop, wait_until, sched_hist, fetch_log, fnvars, othervars>>

\* FetchLocation with a failure leaving the loop instead of continuing
FetchLocation_AbortOnFailure(p) ==
    /\ pc[p] = "fetch"
    /\ locals[p].idx < Len(locals[p].locations)
    /\ \E response \in BackendResponses :
          LET l == locals[p]
              loc == l.locations[l.idx + 1]
              data == fetch_live_weather_data(loc.city, loc.coordinates, response)
          IN  /\ fetch_log' = [fetch_log EXCEPT
                                   ![p] = Append(@, [city |-> loc.city, response |-> response,
                                                     slept_ms |-> IF l.completed > 0
                                                                  THEN RATE_LIMIT_DELAY_MS ELSE 0])]
              /\ IF ~Falsy(data) /\ has_valid_weather_data(data)
                 THEN locals' = [locals EXCEPT
                                    ![p].live_data = DictSet(l.live_data, loc.city, data),
                                    ![p].completed = l.completed + 1,
                                    ![p].idx = l.idx + 1]
                 ELSE locals' = [locals EXCEPT
                                    ![p].failed = l.failed + 1,
                                    ![p].idx = Len(l.locations)]
    /\ UNCHANGED <<now, locations_file, output_file, auto_update, update_thread,
                   should_stop, wait_until, sched_hist, pc, fnvars, othervars>>

\* FetchLocation storing whatever the fetch returned
FetchLocation_StoresUnvalidated(p) ==
    /\ pc[p] = "fetch"
    /\ locals[p].idx < Len(locals[p].locations)
    /\ \E response \in BackendResponses :
          LET l == locals[p]
              loc == l.locations[l.idx + 1]
              data == fetch_live_weather_data(loc.city, loc.coordinates, response)
          IN  /\ fetch_log' = [fetch_log EXCEPT
                                   ![p] = Append(@, [city |-> loc.city, response |-> response,
                                                     slept_ms |-> IF l.completed > 0
                                                                  THEN RATE_LIMIT_DELAY_MS ELSE 0])]
              /\ IF ~Falsy(data)
                 THEN locals' = [locals EXCEPT
                                    ![p].live_data = DictSet(l.live_data, loc.city, data),
                                    ![p].completed = l.completed + 1,
                                    ![p].idx = l.idx + 1]
                 ELSE locals' = [locals EXCEPT
                                    ![p].failed = l.failed + 1,
                                    ![p].idx = l.idx + 1]
    /\ UNCHANGED <<now, locations_file, output_file, auto_update, update_thread,
                   should_stop, wait_until, sched_hist, pc, fnvars, othervars>>

\* one iteration of the for loop of _fetch_data_with_rate_limiting
FetchLocation(p) ==
    /\ pc[p] = "fetch"
    /\ locals[p].idx < Len(locals[p].locations)
    /\ \E response \in BackendResponses :
          LET l == locals[p]
              loc == l.locations[l.idx + 1]
              data == fetch_live_weather_data(loc.city, loc.coordinates, response)
          IN  /\ fetch_log' = [fetch_log EXCEPT
                                   ![p] = Append(@, [city |-> loc.city, response |-> response,
                                                     slept_ms |-> IF l.completed > 0
                                                                  THEN RATE_LIMIT_DELAY_MS ELSE 0])]
              /\ IF ~Falsy(data) /\ has_valid_weather_data(data)
                 THEN locals' = [locals EXCEPT
                                    ![p].live_data = DictSet(l.live_data, loc.city, data),
                                    ![p].completed = l.completed + 1,
                                    ![p].idx = l.idx + 1]
                 ELSE locals' = [locals EXCEPT
                                    ![p].failed = l.failed + 1,
                                    ![p].idx = l.idx + 1]
    /\ UNCHANGED <<now, locations_file, output_file, auto_update, update_thread,
                   should_stop, wait_until, sched_hist, pc, fnvars, othervars>>

\* FetchDone without the "if not fresh_data" test
FetchDone_NoYieldCheck(p) ==
    /\ pc[p] = "fetch"
    /\ locals[p].idx = Len(locals[p].locations)
    /\ pc' = [pc EXCEPT ![p] = "open"]
    /\ locals' = [locals EXCEPT ![p].below_target = locals[p].completed < min_locations_target]
    /\ fetch_log' = [fetch_log EXCEPT ![p] = <<>>]
    /\ UNCHANGED <<now, locations_file, output_file, auto_update, update_thread,
                   should_stop, wait_until, sched_hist, fnvars, othervars>>

\* FetchDone with a batch below the target treated like one that accepted nothing
FetchDone_DiscardBelowTarget(p) ==
    /\ pc[p] = "fetch"
    /\ locals[p].idx = Len(locals[p].locations)
    /\ LET below == locals[p].completed < min_locations_target
       IN  IF locals[p].live_data = <<>> \/ below
           THEN /\ pc' = [pc EXCEPT ![p] = "ret"]
                /\ locals' = [locals EXCEPT ![p].below_target = below,
                                            ![p].result = FALSE, ![p].offset = 0]
           ELSE /\ pc' = [pc EXCEPT ![p] = "open"]
                /\ locals' = [locals EXCEPT ![p].below_target = below]
    /\ fetch_log' = [fetch_log EXCEPT ![p] = <<>>]
    /\ UNCHANGED <<now, locations_file, output_file, auto_update, update_thread,
                   should_stop, wait_until, sched_hist, fnvars, othervars>>

\* the loop is over: the summary is logged, with the warning when completed is
\* below min_locations_target, and live_data is returned; then
\* "if not fresh_data" in _perform_update
FetchDone(p) ==
    /\ pc[p] = "fetch"
    /\ locals[p].idx = Len(locals[p].locations)
    /\ LET below == locals[p].completed < min_locations_target
       IN  IF locals[p].live_data = <<>>
           THEN /\ pc' = [pc EXCEPT ![p] = "ret"]       \* "Failed to fetch any data"
                /\ locals' = [locals EXCEPT ![p].below_target = below,
                                            ![p].result = FALSE, ![p].offset = 0]
           ELSE /\ pc' = [pc EXCEPT ![p] = "open"]
                /\ locals' = [locals EXCEPT ![p].below_target = below]
    /\ fetch_log' = [fetch_log EXCEPT ![p] = <<>>]
    /\ UNCHANGED <<now, locations_file, output_file, auto_update, update_thread,
                   should_stop, wait_until, sched_hist, fnvars, othervars>>

\* output_file.parent.mkdir(...); open(output_file, 'w'): the file is created or
\* truncated, or the call raises OSError and the except clause returns False
OpenOutputFile(p) ==
    /\ pc[p] = "open"
    /\ \E outcome \in {"opened", "OSError"} :
          IF outcome = "opened"
          THEN /\ output_file' = [exists |-> TRUE, cells |-> <<>>, mtime |-> now]
               /\ pc' = [pc EXCEPT ![p] = "dump"]
               /\ locals' = [locals EXCEPT ![p].offset = 0,
                                           ![p].before = load_weather_data]
          ELSE /\ Return(p, FALSE)
               /\ UNCHANGED output_file
    /\ UNCHANGED <<now, locations_file, auto_update, update_thread,
                   should_stop, wait_until, sched_hist, fetch_log, fnvars, othervars>>

\* json.dump(fresh_data, f, indent=2): the next chunk reaches the file, or the
\* write raises OSError, the with statement closes the file and the except
\* clause returns False
DumpChunk(p) ==
    /\ pc[p] = "dump"
    /\ locals[p].offset < Len(Serialize(locals[p].live_data))
    /\ \E outcome \in {"written", "OSError"} :
          IF outcome = "written"
          THEN /\ output_file' =
                     [exists |-> TRUE,
                      cells |-> WriteAt(output_file.cells, locals[p].offset + 1,
                                        Serialize(locals[p].live_data)[locals[p].offset + 1]),
                      mtime |-> now]
               /\ locals' = [locals EXCEPT ![p].offset = @ + 1]
               /\ UNCHANGED pc
          ELSE /\ Return(p, FALSE)
               /\ UNCHANGED output_file
    /\ UNCHANGED <<now, locations_file, auto_update, update_thread,
                   should_stop, wait_until, sched_hist, fetch_log, fnvars, othervars>>

\* the with statement ends, the success is logged, return True
CloseOutputFile(p) ==
    /\ pc[p] = "dump"
    /\ locals[p].offset = Len(Serialize(locals[p].live_data))
    /\ Return(p, TRUE)
    /\ UNCHANGED <<now, locations_file, output_file, auto_update, update_thread,
                   should_stop, wait_until, sched_hist, fetch_log, fnvars, othervars>>

\* force_update returns to the handler, which answers the request
ForceUpdateReturn ==
    /\ pc["api"] = "ret"
    /\ pc' = [pc EXCEPT !["api"] = "idle"]
    /\ locals' = [locals EXCEPT !["api"] = FreshLocals]
    /\ fetch_log' = [fetch_log EXCEPT !["api"] = <<>>]
    /\ UNCHANGED <<now, locations_file, output_file, auto_update, update_thread,
                   should_stop, wait_until, sched_hist, fnvars, othervars>>

\* sched_hist when no update thread has run
NoHistory ==
    [started_at  |-> -1,       \* time.time() when the thread was started
     checked_at  |-> -1,       \* ... when it last called should_update_data
     refresh_at  |-> -1,       \* ... when it last called _perform_update
     error_at    |-> -1,       \* ... when the except clause of the loop last ran
     last_result |-> "none",   \* what its last _perform_update returned: "ok", "failed"
     starts      |-> 0]        \* number of update threads started so far

Waits == {"wait_initial", "wait_check", "wait_backoff"}

\* WeatherDataManager.start_background_updates, called by the startup handler
StartBackgroundUpdates ==
    /\ pc["api"] = "idle"
    /\ IF ~auto_update \/ update_thread = "alive"
       THEN UNCHANGED <<update_thread, should_stop, wait_until, sched_hist, pc>>
       ELSE /\ sched_hist.starts < MaxStarts
            /\ should_stop' = FALSE
            /\ update_thread' = "alive"
            /\ pc' = [pc EXCEPT !["sched"] = "wait_initial"]
            /\ wait_until' = now + INITIAL_DELAY       \* self.should_stop.wait(30)
            /\ sched_hist' = [NoHistory EXCEPT !.started_at = now,
                                            !.starts = sched_hist.starts + 1]
    /\ UNCHANGED <<now, locations_file, output_file, auto_update, locals,
                   fetch_log, fnvars, othervars>>

\* WeatherDataManager.stop_background_updates: should_stop.set(), then the
\* caller is in update_thread.join(timeout=10)
StopBackgroundUpdates ==
    /\ pc["api"] = "idle"
    /\ IF update_thread = "None"
       THEN UNCHANGED <<should_stop, pc>>
       ELSE /\ should_stop' = TRUE
            /\ pc' = [pc EXCEPT !["api"] = "join"]
    /\ UNCHANGED <<now, locations_file, output_file, auto_update, update_thread,
                   wait_until, sched_hist, locals, fetch_log, fnvars, othervars>>

\* join(timeout=10) returns: the thread has ended, or it is in a batch that
\* outlasts the 10 seconds
JoinReturns ==
    /\ pc["api"] = "join"
    /\ update_thread = "dead" \/ InBatch("sched")
    /\ pc' = [pc EXCEPT !["api"] = "idle"]
    /\ UNCHANGED <<now, locations_file, output_file, auto_update, update_thread,
                   should_stop, wait_until, sched_hist, locals, fetch_log, fnvars, othervars>>

\* time passes while the update thread is in should_stop.wait(t) and the event
\* is not set
WaitElapses ==
    /\ pc["sched"] \in Waits
    /\ ~should_stop
    /\ now < wait_until
    /\ now' = wait_until
    /\ UNCHANGED <<locations_file, output_file, auto_update, update_thread,
                   should_stop, wait_until, sched_hist, pc, locals, fetch_log, fnvars, othervars>>

\* should_stop.wait(t) returning at any time
WaitReturns_Early ==
    /\ pc["sched"] \in Waits
    /\ pc' = [pc EXCEPT !["sched"] = CASE pc["sched"] = "wait_initial" -> "startup_check"
                                       [] pc["sched"] = "wait_check" -> "check"
                                       [] pc["sched"] = "wait_backoff" -> "loop"]
    /\ UNCHANGED <<now, locations_file, output_file, auto_update, update_thread,
                   should_stop, wait_until, sched_hist, locals, fetch_log, fnvars, othervars>>

\* should_stop.wait(t) returns: the event is set or t seconds have passed.
\* After the wait of the except clause the loop goes back to its while test.
WaitReturns ==
    /\ pc["sched"] \in Waits
    /\ should_stop \/ now >= wait_until
    /\ pc' = [pc EXCEPT !["sched"] = CASE pc["sched"] = "wait_initial" -> "startup_check"
                                       [] pc["sched"] = "wait_check" -> "check"
                                       [] pc["sched"] = "wait_backoff" -> "loop"]
    /\ UNCHANGED <<now, locations_file, output_file, auto_update, update_thread,
                   should_stop, wait_until, sched_hist, locals, fetch_log, fnvars, othervars>>

\* the test without "not self.should_stop.is_set()"
CheckDue_IgnoresStop ==
    /\ pc["sched"] \in {"startup_check", "check"}
    /\ IF should_update_data
       THEN /\ pc' = [pc EXCEPT !["sched"] = "load"]
            /\ locals' = [locals EXCEPT !["sched"] = FreshLocals]
            /\ fetch_log' = [fetch_log EXCEPT !["sched"] = <<>>]
            /\ sched_hist' = [sched_hist EXCEPT !.checked_at = now, !.refresh_at = now,
                                                !.last_result = "none"]
       ELSE /\ pc' = [pc EXCEPT !["sched"] = "loop"]
            /\ sched_hist' = [sched_hist EXCEPT !.checked_at = now]
            /\ UNCHANGED <<locals, fetch_log>>
    /\ UNCHANGED <<now, locations_file, output_file, auto_update, update_thread,
                   should_stop, wait_until, fnvars, othervars>>

\* "if not self.should_stop.is_set() and self.should_update_data():", at startup
\* and in the loop; then self._perform_update()
CheckDue ==
    /\ pc["sched"] \in {"startup_check", "check"}
    /\ IF should_stop
       THEN /\ pc' = [pc EXCEPT !["sched"] = "loop"]
            /\ UNCHANGED <<locals, fetch_log, sched_hist>>
       ELSE IF should_update_data
       THEN /\ pc' = [pc EXCEPT !["sched"] = "load"]
            /\ locals' = [locals EXCEPT !["sched"] = FreshLocals]
            /\ fetch_log' = [fetch_log EXCEPT !["sched"] = <<>>]
            /\ sched_hist' = [sched_hist EXCEPT !.checked_at = now, !.refresh_at = now,
                                                !.last_result = "none"]
       ELSE /\ pc' = [pc EXCEPT !["sched"] = "loop"]
            /\ sched_hist' = [sched_hist EXCEPT !.checked_at = now]
            /\ UNCHANGED <<locals, fetch_log>>
    /\ UNCHANGED <<now, locations_file, output_file, auto_update, update_thread,
                   should_stop, wait_until, fnvars, othervars>>

\* an exception is raised in the try block of the loop before the staleness
\* check is made: "except Exception as e:" logs it and calls should_stop.wait(600)
InternalError ==
    /\ pc["sched"] = "check"
    /\ pc' = [pc EXCEPT !["sched"] = "wait_backoff"]
    /\ wait_until' = now + ERROR_BACKOFF
    /\ sched_hist' = [sched_hist EXCEPT !.error_at = now]
    /\ UNCHANGED <<now, locations_file, output_file, auto_update, update_thread,
                   should_stop, locals, fetch_log, fnvars, othervars>>

\* _perform_update returning into a loop that retries a failed refresh after
\* the short wait
UpdateReturns_RetrySoon ==
    /\ pc["sched"] = "ret"
    /\ IF locals["sched"].result
       THEN /\ pc' = [pc EXCEPT !["sched"] = "loop"]
            /\ UNCHANGED wait_until
       ELSE /\ pc' = [pc EXCEPT !["sched"] = "wait_backoff"]
            /\ wait_until' = now + ERROR_BACKOFF
    /\ sched_hist' = [sched_hist EXCEPT
                         !.last_result = IF locals["sched"].result THEN "ok" ELSE "failed"]
    /\ locals' = [locals EXCEPT !["sched"] = FreshLocals]
    /\ fetch_log' = [fetch_log EXCEPT !["sched"] = <<>>]
    /\ UNCHANGED <<now, locations_file, output_file, auto_update, update_thread,
                   should_stop, fnvars, othervars>>

\* _perform_update returns into _update_loop, which logs the outcome
UpdateReturns ==
    /\ pc["sched"] = "ret"
    /\ pc' = [pc EXCEPT !["sched"] = "loop"]
    /\ sched_hist' = [sched_hist EXCEPT
                         !.last_result = IF locals["sched"].result THEN "ok" ELSE "failed"]
    /\ locals' = [locals EXCEPT !["sched"] = FreshLocals]
    /\ fetch_log' = [fetch_log EXCEPT !["sched"] = <<>>]
    /\ UNCHANGED wait_until
    /\ UNCHANGED <<now, locations_file, output_file, auto_update, update_thread,
                   should_stop, fnvars, othervars>>

\* "while not self.should_stop.is_set():" and self.should_stop.wait(check_interval);
\* the loop is followed up to the time horizon
LoopHeadWithin(horizon) ==
    /\ pc["sched"] = "loop"
    /\ IF should_stop
       THEN /\ pc' = [pc EXCEPT !["sched"] = "exited"]
            /\ update_thread' = "dead"
            /\ UNCHANGED wait_until
       ELSE /\ now + CHECK_INTERVAL <= horizon
            /\ pc' = [pc EXCEPT !["sched"] = "wait_check"]
            /\ wait_until' = now + CHECK_INTERVAL
            /\ UNCHANGED update_thread
    /\ UNCHANGED <<now, locations_file, output_file, auto_update, should_stop,
                   sched_hist, locals, fetch_log, fnvars, othervars>>

LoopHead == LoopHeadWithin(MaxTime)

-----------------------------------------------------------------------------
(* The standalone updater tool: WeatherDataUpdater                         *)
(* (updaters/update_weather_information.py), run from the command line.    *)

\* self.weather_params of WeatherDataUpdater
updater_weather_params ==
    << "temperature_2m", "relative_humidity_2m", "dew_point_2m",
       "apparent_temperature", "precipitation_probability", "precipitation",
       "rain", "showers", "snowfall", "snow_depth", "pressure_msl",
       "surface_pressure", "cloud_cover", "vapour_pressure_deficit",
       "wind_speed_10m", "wind_direction_10m", "soil_temperature_0cm",
       "soil_moisture_0_to_1cm" >>

\* the tool is run with --retries up to MaxRetries
MaxRetries == 2
\* the catalog of a run of the tool holds at most MaxUpdaterLocs locations
MaxUpdaterLocs == 2

\* --retry-delay: the default of 5 seconds, or 1 second
RetryDelays == {1, 5}

\* what response.json() of the public backend can be: a forecast, a forecast
\* whose series are all null, a forecast with few parameters, and objects
\* that lack longitude, the time series, the hourly content or everything
UpdaterBodies ==
    { [hourly |-> [time |-> <<"t1", "t2">>, temperature_2m |-> <<"v1", "v1">>],
       latitude |-> 0, longitude |-> 0],
      [hourly |-> [time |-> <<"t1", "t2">>, temperature_2m |-> <<Null, Null>>],
       latitude |-> 0, longitude |-> 0],
      [hourly |-> [time |-> <<"t1", "t2">>], latitude |-> 0, longitude |-> 0],
      [hourly |-> [time |-> <<"t1", "t2">>, temperature_2m |-> <<"v1", "v1">>],
       latitude |-> 0],
      [hourly |-> [temperature_2m |-> <<"v1", "v1">>], latitude |-> 0, longitude |-> 0],
      [hourly |-> EmptyDict, latitude |-> 0, longitude |-> 0],
      EmptyDict }

UpdaterResponses ==
    { [kind |-> k, body |-> None] :
          k \in {"timeout", "connection_error", "http_error", "invalid_json"} }
        \cup { [kind |-> "ok", body |-> b] : b \in UpdaterBodies }

\* the exceptions of the request that are a requests.exceptions.RequestException
RequestExceptions == {"timeout", "connection_error", "http_error"}

\* param_count < len(self.weather_params) * 0.5: the warning that too few
\* parameters are present, after which validate_data goes on
insufficient_parameters(hourly_data) ==
    2 * Cardinality({i \in DOMAIN updater_weather_params :
                        updater_weather_params[i] \in DOMAIN hourly_data})
        < Len(updater_weather_params)

\* WeatherDataUpdater.validate_data(data, city)
validate_data(data) ==
    IF Falsy(data) THEN FALSE
    ELSE IF ~({"hourly", "latitude", "longitude"} \subseteq DOMAIN data) THEN FALSE
    ELSE IF DOMAIN data["hourly"] = {} \/ "time" \notin DOMAIN data["hourly"] THEN FALSE
    ELSE TRUE      \* with or without the warning of insufficient_parameters

\* the tool's output file (--output) before the run
NoOutput == [exists |-> FALSE, cells |-> <<>>]

\* the tool has not been run
UpdaterOff ==
    [pc          |-> "off",
     max_retries |-> 0,          \* --retries
     retry_delay |-> 0,          \* --retry-delay
     locations   |-> <<>>,       \* locations, in dict order
     i           |-> 0,          \* enumerate(locations.items(), 1)
     attempt     |-> 0,          \* attempt, in fetch_weather_data
     tries       |-> <<>>,       \* the session.get calls of the running fetch_weather_data:
                                \* what the backend answered, and the time.sleep before the call
     data        |-> EmptyDict,  \* what fetch_weather_data returned
     output      |-> <<>>,       \* output
     successful_updates |-> 0,
     paused      |-> 0,          \* seconds of time.sleep(1) between locations
     file        |-> NoOutput]

\* main() has built the WeatherDataUpdater; update_all_locations loads the
\* locations and returns {} when there are none
UpdateAllLocations ==
    /\ upd.pc = "start"
    /\ upd' = IF load_locations = <<>>
              THEN [upd EXCEPT !.pc = "done"]               \* "No locations to process"
              ELSE [upd EXCEPT !.pc = "attempt", !.locations = load_locations,
                               !.i = 1, !.attempt = 0, !.tries = <<>>]
    /\ UNCHANGED <<sysvars, fnvars, live, life, web>>

\* the for loop with one pass more than range(self.max_retries + 1) has
FetchAttempt_OneMore ==
    /\ upd.pc = "attempt"
    /\ \E response \in UpdaterResponses, decode_error_is_request_exception \in BOOLEAN :
          LET slept == IF upd.attempt > 0 THEN upd.retry_delay ELSE 0
              tried == [upd EXCEPT !.tries = Append(@, [response |-> response,
                                                        slept |-> slept])]
              retried == response.kind \in RequestExceptions
                            \/ (response.kind = "invalid_json"
                                   /\ decode_error_is_request_exception)
          IN  upd' = IF response.kind = "ok"
                     THEN [tried EXCEPT !.pc = "validate", !.data = response.body]
                     ELSE IF retried /\ upd.attempt < upd.max_retries + 1
                     THEN [tried EXCEPT !.attempt = @ + 1]
                     ELSE [tried EXCEPT !.pc = "validate", !.data = EmptyDict]
    /\ UNCHANGED <<sysvars, fnvars, live, life, web>>

\* one pass of "for attempt in range(self.max_retries + 1)" in
\* fetch_weather_data: session.get, raise_for_status, response.json().  A
\* RequestException is followed by time.sleep(retry_delay) and the next pass,
\* or by return {} in the last pass; json.JSONDecodeError by return {}.  The
\* error response.json() raises is a RequestException as well in the versions
\* of requests that define requests.exceptions.JSONDecodeError.
FetchAttempt ==
    /\ upd.pc = "attempt"
    /\ \E response \in UpdaterResponses, decode_error_is_request_exception \in BOOLEAN :
          LET slept == IF upd.attempt > 0 THEN upd.retry_delay ELSE 0
              tried == [upd EXCEPT !.tries = Append(@, [response |-> response,
                                                        slept |-> slept])]
              retried == response.kind \in RequestExceptions
                            \/ (response.kind = "invalid_json"
                                   /\ decode_error_is_request_exception)
          IN  upd' = IF response.kind = "ok"
                     THEN [tried EXCEPT !.pc = "validate", !.data = response.body]
                     ELSE IF retried /\ upd.attempt < upd.max_retries
                     THEN [tried EXCEPT !.attempt = @ + 1]
                     ELSE [tried EXCEPT !.pc = "validate", !.data = EmptyDict]
    /\ UNCHANGED <<sysvars, fnvars, live, life, web>>

\* "if self.validate_data(data, city): output[city] = data", then time.sleep(1)
\* unless this was the last location
ValidateAndStore ==
    /\ upd.pc = "validate"
    /\ LET city == upd.locations[upd.i].city
           stored == IF validate_data(upd.data)
                     THEN [upd EXCEPT !.output = DictSet(@, city, upd.data),
                                      !.successful_updates = @ + 1]
                     ELSE upd
       IN  upd' = IF upd.i < Len(upd.locations)
                  THEN [stored EXCEPT !.pc = "attempt", !.i = @ + 1, !.attempt = 0,
                                      !.tries = <<>>, !.data = EmptyDict,
                                      !.paused = @ + 1]
                  ELSE [stored EXCEPT !.pc = "save"]
    /\ UNCHANGED <<sysvars, fnvars, live, life, web>>

\* "Save results": the output file is written when output is not empty; open
\* or json.dump may fail, which is logged; return output
SaveResults ==
    /\ upd.pc = "save"
    /\ IF upd.output = <<>>
       THEN upd' = [upd EXCEPT !.pc = "done"]               \* "No data to save"
       ELSE \E written \in 0..Len(Serialize(upd.output)), opened \in BOOLEAN :
               /\ ~opened => written = 0
               /\ upd' = [upd EXCEPT
                             !.pc = "done",
                             !.file = IF opened
                                      THEN [exists |-> TRUE,
                                            cells |-> SubSeq(Serialize(upd.output), 1, written)]
                                      ELSE @]
    /\ UNCHANGED <<sysvars, fnvars, live, life, web>>

UpdaterStep ==
    \/ UpdateAllLocations
    \/ FetchAttempt
    \/ ValidateAndStore
    \/ SaveResults

-----------------------------------------------------------------------------
(* The live data manager: LiveWeatherDataManager (live_data_manager.py).   *)
(* Its methods are called by the request handlers, which run one at a time *)
(* on the event loop, so each call is one step.                            *)

\* "current_time - self._locations_cache_time > 300"
LOCATIONS_CACHE_SECONDS == 300

\* the record of the last call made to the manager
NoCall ==
    [op       |-> "none",    \* "load_locations", "get_weather_data"
     city     |-> "",        \* the city argument of get_weather_data
     at       |-> 0,         \* time.time() at the call
     read     |-> FALSE,     \* the call opened config.LOCATIONS_FILE
     catalog  |-> <<>>,      \* what load_locations returned, in dict order
     data     |-> None,      \* what get_weather_data returned
     requests |-> <<>>]      \* the requests.get calls it made: city whose coordinates
                             \* were sent, and what the backend answered

\* the manager after __init__
LiveFresh ==
    [cached    |-> FALSE,    \* self._locations_cache is not None
     cache     |-> <<>>,     \* self._locations_cache, in dict order
     cache_time |-> 0,       \* self._locations_cache_time
     loaded_at |-> -1,       \* when json.load of the locations file last succeeded
     loaded    |-> <<>>,     \* ... and what it returned
     ticks     |-> 0,        \* clock steps taken
     call      |-> NoCall]

\* the cache test with >= in place of >
CacheExpired_At300 ==
    ~live.cached \/ now - live.cache_time >= LOCATIONS_CACHE_SECONDS

\* "self._locations_cache is None or current_time - self._locations_cache_time > 300"
CacheExpired ==
    ~live.cached \/ now - live.cache_time > LOCATIONS_CACHE_SECONDS

\* load_locations keeping the earlier mapping when the read fails
AfterLoad_KeepsEarlier ==
    IF ~CacheExpired THEN live
    ELSE IF locations_file.readable
    THEN [live EXCEPT !.cached = TRUE, !.cache = locations_file.locations,
                      !.cache_time = now,
                      !.loaded_at = now, !.loaded = locations_file.locations]
    ELSE [live EXCEPT !.cached = TRUE]

\* load_locations taking the time of a read that fails as the cache time
AfterLoad_CachesFailure ==
    IF ~CacheExpired THEN live
    ELSE IF locations_file.readable
    THEN [live EXCEPT !.cached = TRUE, !.cache = locations_file.locations,
                      !.cache_time = now,
                      !.loaded_at = now, !.loaded = locations_file.locations]
    ELSE [live EXCEPT !.cached = TRUE, !.cache = <<>>, !.cache_time = now]

\* the manager after the body of load_locations: the file is read when the
\* cache is empty or expired; a read that fails leaves {} in the cache and the
\* cache time as it was
AfterLoad ==
    IF ~CacheExpired THEN live
    ELSE IF locations_file.readable
    THEN [live EXCEPT !.cached = TRUE, !.cache = locations_file.locations,
                      !.cache_time = now,
                      !.loaded_at = now, !.loaded = locations_file.locations]
    ELSE [live EXCEPT !.cached = TRUE, !.cache = <<>>]

\* LiveWeatherDataManager.load_locations(): "return self._locations_cache or {}"
LiveLoadLocations ==
    /\ pc["api"] = "idle"
    /\ live' = [AfterLoad EXCEPT
                   !.call = [NoCall EXCEPT !.op = "load_locations", !.at = now,
                                           !.read = CacheExpired,
                                           !.catalog = AfterLoad.cache]]
    /\ UNCHANGED <<sysvars, fnvars, upd, life, web>>

\* the coordinates stored for a city in a catalog
CoordinatesIn(catalog, city) == catalog[IndexOf(catalog, city)].coordinates

\* LiveWeatherDataManager._fetch_live_weather_data(city, coordinates), given what
\* the backend answers to the one requests.get it makes: every except clause
\* returns None
live_fetch_live_weather_data(city, coordinates, response) ==
    IF response.kind # "ok" THEN None
    ELSE LET normalized == live_normalize_field_names(response.body)
         IN  Put(Put(Put(Put(normalized, "city", city), "coordinates", coordinates),
                     "latitude", coordinates[1]), "longitude", coordinates[2])

\* the city names sent by clients: the cities of the catalogs and one that is
\* in no catalog
MaxLiveLocs == 2
RequestedCities == {AllCities[i] : i \in 1..MaxLiveLocs} \cup {"Atlantis"}

\* get_weather_data looking the city up only after the fetch
LiveGetWeatherData_FetchFirst ==
    /\ pc["api"] = "idle"
    /\ \E city \in RequestedCities, response \in BackendResponses :
          LET locations == AfterLoad.cache
              call == [NoCall EXCEPT !.op = "get_weather_data", !.city = city, !.at = now,
                                     !.read = CacheExpired, !.catalog = locations]
              coordinates == IF city \in Keys(locations) THEN CoordinatesIn(locations, city)
                             ELSE <<0, 0>>
          IN  live' = [AfterLoad EXCEPT
                          !.call = [call EXCEPT
                                       !.requests = <<[city |-> city,
                                                       coordinates |-> coordinates,
                                                       response |-> response]>>,
                                       !.data = IF city \in Keys(locations)
                                                THEN live_fetch_live_weather_data(
                                                         city, coordinates, response)
                                                ELSE None]]
    /\ UNCHANGED <<sysvars, fnvars, upd, life, web>>

\* LiveWeatherDataManager.get_weather_data(city) with a city: None when there
\* are no locations or the city is not a key of them, else
\* self._fetch_live_weather_data(city, locations[city])
LiveGetWeatherData ==
    /\ pc["api"] = "idle"
    /\ \E city \in RequestedCities, response \in BackendResponses :
          LET locations == AfterLoad.cache
              call == [NoCall EXCEPT !.op = "get_weather_data", !.city = city, !.at = now,
                                     !.read = CacheExpired, !.catalog = locations]
          IN  live' = [AfterLoad EXCEPT
                          !.call = IF locations = <<>> \/ city \notin Keys(locations)
                                   THEN call
                                   ELSE [call EXCEPT
                                            !.requests =
                                                <<[city |-> city,
                                                   coordinates |-> CoordinatesIn(locations, city),
                                                   response |-> response]>>,
                                            !.data = live_fetch_live_weather_data(
                                                         city, CoordinatesIn(locations, city),
                                                         response)]]
    /\ UNCHANGED <<sysvars, fnvars, upd, life, web>>

\* the clock is followed through MaxTicks steps
MaxTicks == 3
\* the seconds between two calls: half a cache period, and a second more
TickSeconds == {150, 151}

\* time passes between two requests
ClockAdvances ==
    /\ live.ticks < MaxTicks
    /\ \E d \in TickSeconds : now' = now + d
    /\ live' = [live EXCEPT !.ticks = @ + 1]
    /\ UNCHANGED <<locations_file, output_file, auto_update, update_thread,
                   should_stop, wait_until, sched_hist, pc, locals, fetch_log, fnvars, upd, life, web>>

\* geolocations.json is edited, replaced by a corrupt file, or repaired
CatalogEdited ==
    /\ \E file \in LocationsFiles(MaxLiveLocs) :
          /\ file # locations_file
          /\ locations_file' = file
    /\ UNCHANGED <<now, output_file, auto_update, update_thread,
                   should_stop, wait_until, sched_hist, pc, locals, fetch_log, fnvars,
                   othervars>>

-----------------------------------------------------------------------------
(* start_background_updates called from several threads at once.  The      *)
(* method tests and then creates, without a lock; the update threads are   *)
(* followed only as alive or ended.                                         *)

\* the threads that call start_background_updates
Callers == {"c1", "c2", "c3"}
\* the calls create at most MaxThreads update threads
MaxThreads == 3

\* no call is in progress and no update thread was created
LifeFresh ==
    [pc      |-> [c \in Callers |-> "idle"],  \* "idle", or "tested": past both tests
     created |-> 0,                           \* threading.Thread objects started so far
     orphans |-> 0]                           \* update threads alive that
                                              \* self.update_thread no longer refers to

\* the update loops that are alive
LoopsAlive == (IF update_thread = "alive" THEN 1 ELSE 0) + life.orphans

\* the tests of start_background_updates: "if not self.config.AUTO_UPDATE_ENABLED"
\* and "if self.update_thread and self.update_thread.is_alive()", each followed
\* by return
StartTests(c) ==
    /\ life.pc[c] = "idle"
    /\ auto_update
    /\ update_thread # "alive"
    /\ life.created < MaxThreads
    /\ life' = [life EXCEPT !.pc[c] = "tested"]
    /\ UNCHANGED <<sysvars, fnvars, upd, live, web>>

\* self.should_stop.clear(); self.update_thread = threading.Thread(...);
\* self.update_thread.start()
StartCreates(c) ==
    /\ life.pc[c] = "tested"
    /\ should_stop' = FALSE
    /\ update_thread' = "alive"
    /\ life' = [life EXCEPT !.pc[c] = "idle",
                            !.created = @ + 1,
                            !.orphans = IF update_thread = "alive" THEN @ + 1 ELSE @]
    /\ UNCHANGED <<now, locations_file, output_file, auto_update, wait_until,
                   sched_hist, pc, locals, fetch_log, fnvars, upd, live, web>>

\* stop_background_updates: "if self.update_thread:" self.should_stop.set()
StopSignal ==
    /\ update_thread # "None"
    /\ ~should_stop
    /\ should_stop' = TRUE
    /\ UNCHANGED <<now, locations_file, output_file, auto_update, update_thread,
                   wait_until, sched_hist, pc, locals, fetch_log, fnvars, othervars>>

\* an update thread finds the Event set at "while not self.should_stop.is_set()"
\* and ends: the one self.update_thread refers to, or another one
LoopEnds ==
    /\ should_stop
    /\ \/ /\ update_thread = "alive"
          /\ update_thread' = "dead"
          /\ UNCHANGED life
       \/ /\ life.orphans > 0
          /\ life' = [life EXCEPT !.orphans = @ - 1]
          /\ UNCHANGED update_thread
    /\ UNCHANGED <<now, locations_file, output_file, auto_update, should_stop,
                   wait_until, sched_hist, pc, locals, fetch_log, fnvars, upd, live, web>>

-----------------------------------------------------------------------------
(* The request handlers of index.py that take a key or a limit.            *)

\* no request has been handled
NoRequest ==
    [op       |-> "none",     \* "force_data_update", "get_weather_data"
     status   |-> 0,          \* HTTP status of the answer; 0: no answer yet
     API_KEY  |-> <<"key-A">>,  \* config.API_KEY, as its parts
     x_api_key |-> <<>>,      \* the X-API-Key header, as its parts
     authorization |-> <<>>,  \* the Authorization header, as its parts
     limit    |-> 0,          \* the limit parameter, as sent
     live_mode |-> FALSE,     \* config.LIVE_DATA_ENABLED
     attempted |-> <<>>,      \* the cities requested from the backend, in order
     data     |-> <<>>]       \* "data" of the answer, in dict order

HandlersIdle ==
    /\ life = LifeFresh
    /\ web = NoRequest

\* a header the request does not have: request.headers.get(name) is None
NoHeader == <<"#no-header">>

\* strings are sequences of parts; 'Bearer ' is a part of its own
\* value.replace(old, ''), for old one part
Replace(value, old) == SelectSeq(value, LAMBDA part : part # old)

\* request.headers.get(name, default)
HeaderGet(value, default) == IF value = NoHeader THEN default ELSE value

\* config.API_KEY: os.getenv('API_KEY', self._generate_api_key()), the
\* variable being set to a key, or set and empty
ApiKeys == {<<"key-A">>, <<>>}

\* the headers that requests come with
XApiKeyHeaders == {NoHeader, <<>>, <<"key-A">>, <<"key-B">>}
AuthorizationHeaders ==
    {NoHeader, <<>>, <<"Bearer ">>, <<"Bearer ", "key-A">>, <<"Bearer ", "key-B">>,
     <<"bearer ", "key-A">>, <<"key-A">>}

\* "request.headers.get('X-API-Key') or
\*  request.headers.get('Authorization', '').replace('Bearer ', '')"
presented_key(x_api_key, authorization) ==
    IF x_api_key # NoHeader /\ x_api_key # <<>>
    THEN x_api_key
    ELSE Replace(HeaderGet(authorization, <<>>), "Bearer ")

\* the key test without "not api_key"
Authorized_EqualOnly(api_key, API_KEY) == api_key = API_KEY

\* the negation of "not api_key or api_key != self.config.API_KEY"
Authorized(api_key, API_KEY) == ~(api_key = <<>> \/ api_key # API_KEY)

\* force_data_update up to the call of self.data_manager.force_update(): the
\* 401 answer, or the batch begins on the handler's thread
ForceDataUpdate ==
    /\ pc["api"] = "idle"
    /\ \E x_api_key \in XApiKeyHeaders, authorization \in AuthorizationHeaders :
          LET request == [NoRequest EXCEPT !.op = "force_data_update",
                                           !.API_KEY = web.API_KEY,
                                           !.x_api_key = x_api_key,
                                           !.authorization = authorization]
          IN  IF Authorized(presented_key(x_api_key, authorization), web.API_KEY)
              THEN /\ web' = request
                   /\ pc' = [pc EXCEPT !["api"] = "load"]
                   /\ locals' = [locals EXCEPT !["api"] = FreshLocals]
                   /\ fetch_log' = [fetch_log EXCEPT !["api"] = <<>>]
              ELSE /\ web' = [request EXCEPT !.status = 401]
                   /\ UNCHANGED <<pc, locals, fetch_log>>
    /\ UNCHANGED <<now, locations_file, output_file, auto_update, update_thread,
                   should_stop, wait_until, sched_hist, fnvars, upd, live, life>>

\* force_data_update after force_update() has returned: 200 when it returned
\* True, else 500
ForceDataUpdateReturn ==
    /\ pc["api"] = "ret"
    /\ web.op = "force_data_update"
    /\ web.status = 0
    /\ web' = [web EXCEPT !.status = IF locals["api"].result THEN 200 ELSE 500]
    /\ pc' = [pc EXCEPT !["api"] = "idle"]
    /\ locals' = [locals EXCEPT !["api"] = FreshLocals]
    /\ fetch_log' = [fetch_log EXCEPT !["api"] = <<>>]
    /\ UNCHANGED <<now, locations_file, output_file, auto_update, update_thread,
                   should_stop, wait_until, sched_hist, fnvars, upd, live, life>>

-----------------------------------------------------------------------------
(* The data manager: the update thread, and forced updates.  The update    *)
(* thread is not stopped and its loop meets no internal error.             *)

\* the updater tool is not run and the live data manager is not called
OthersIdle ==
    /\ upd = UpdaterOff
    /\ live = LiveFresh
    /\ HandlersIdle

FnIdle ==
    /\ fn_in = None
    /\ fn_out = None
    /\ fn_out2 = None
    /\ fn_pc = "unused"
    /\ fn_impl = "none"

InitManager(maxLocs) ==
    /\ now = StartTime
    /\ locations_file \in LocationsFiles(maxLocs)
    /\ output_file \in InitialFiles
    /\ update_thread = "None"
    /\ should_stop = FALSE
    /\ wait_until = 0
    /\ sched_hist = NoHistory
    /\ pc = [p \in Threads |-> IF p = "api" THEN "idle" ELSE "not_started"]
    /\ locals = [p \in Threads |-> FreshLocals]
    /\ fetch_log = [p \in Threads |-> <<>>]
    /\ OthersIdle

Init ==
    /\ InitManager(MaxLocs)
    /\ auto_update = TRUE
    /\ FnIdle

Next ==
    \/ ForceUpdate
    \/ ForceUpdateReturn
    \/ StartBackgroundUpdates
    \/ WaitElapses
    \/ WaitReturns
    \/ CheckDue
    \/ UpdateReturns
    \/ LoopHead
    \/ \E p \in Threads : LoadLocations(p)
    \/ \E p \in Threads : FetchLocation(p)
    \/ \E p \in Threads : FetchDone(p)
    \/ \E p \in Threads : OpenOutputFile(p)
    \/ \E p \in Threads : DumpChunk(p)
    \/ \E p \in Threads : CloseOutputFile(p)

Spec == Init /\ [][Next]_vars

-----------------------------------------------------------------------------
(* Forced updates alone: automatic updates are disabled, so the update     *)
(* thread is never created and every batch runs on the calling thread.     *)

\* the catalog of a run without update thread holds at most MaxBatchLocs locations
MaxBatchLocs == 3

InitBatch ==
    /\ InitManager(MaxBatchLocs)
    /\ auto_update = FALSE
    /\ FnIdle

NextBatch ==
    \/ ForceUpdate
    \/ ForceUpdateReturn
    \/ StartBackgroundUpdates
    \/ LoadLocations("api")
    \/ FetchLocation("api")
    \/ FetchDone("api")
    \/ OpenOutputFile("api")
    \/ DumpChunk("api")
    \/ CloseOutputFile("api")

SpecBatch == InitBatch /\ [][NextBatch]_vars

-----------------------------------------------------------------------------
(* The update thread alone, through its whole life: started, stopped and  *)
(* started again by the lifecycle handlers, with internal errors in its    *)
(* loop.  No forced update is requested.                                   *)

\* the catalog of such a run holds at most MaxSchedLocs locations
MaxSchedLocs == 1
\* the loop is followed through MaxSchedCycles 6-hour waits, each with an error backoff
MaxSchedCycles == 2

MaxSchedTime == StartTime + INITIAL_DELAY + MaxSchedCycles * (CHECK_INTERVAL + ERROR_BACKOFF)

\* a snapshot written by an earlier run that becomes DATA_UPDATE_INTERVAL old
\* one hour after the process starts
AgeingFile ==
    [exists |-> TRUE, cells |-> Serialize(OldSnapshot),
     mtime |-> StartTime + 3600 - DATA_UPDATE_INTERVAL]

InitSched ==
    /\ now = StartTime
    /\ locations_file \in LocationsFiles(MaxSchedLocs)
    /\ output_file \in InitialFiles \cup {AgeingFile}
    /\ update_thread = "None"
    /\ should_stop = FALSE
    /\ wait_until = 0
    /\ sched_hist = NoHistory
    /\ pc = [p \in Threads |-> IF p = "api" THEN "idle" ELSE "not_started"]
    /\ locals = [p \in Threads |-> FreshLocals]
    /\ fetch_log = [p \in Threads |-> <<>>]
    /\ auto_update = TRUE
    /\ OthersIdle
    /\ FnIdle

SchedStep ==
    \/ WaitElapses
    \/ WaitReturns
    \/ CheckDue
    \/ InternalError
    \/ UpdateReturns
    \/ LoopHeadWithin(MaxSchedTime)
    \/ LoadLocations("sched")
    \/ FetchLocation("sched")
    \/ FetchDone("sched")
    \/ OpenOutputFile("sched")
    \/ DumpChunk("sched")
    \/ CloseOutputFile("sched")

NextSched ==
    \/ StartBackgroundUpdates
    \/ StopBackgroundUpdates
    \/ JoinReturns
    \/ SchedStep

SpecSched == InitSched /\ [][NextSched]_vars

\* the update thread is scheduled as long as it has a step to take
FairSpecSched == SpecSched /\ WF_vars(SchedStep)

-----------------------------------------------------------------------------
(* The manager's start method called by several threads, with stop calls   *)
(* and the ends of the update threads in between.                           *)

InitLifecycle ==
    /\ now = StartTime
    /\ locations_file = [readable |-> TRUE, locations |-> Catalog(0)]
    /\ output_file = NoFile
    /\ auto_update \in BOOLEAN
    /\ update_thread = "None"
    /\ should_stop = FALSE
    /\ wait_until = 0
    /\ sched_hist = NoHistory
    /\ pc = [p \in Threads |-> IF p = "api" THEN "idle" ELSE "not_started"]
    /\ locals = [p \in Threads |-> FreshLocals]
    /\ fetch_log = [p \in Threads |-> <<>>]
    /\ OthersIdle
    /\ FnIdle

NextLifecycle ==
    \/ \E c \in Callers : StartTests(c)
    \/ \E c \in Callers : StartCreates(c)
    \/ StopSignal
    \/ LoopEnds

SpecLifecycle == InitLifecycle /\ [][NextLifecycle]_vars

-----------------------------------------------------------------------------
(* The updater tool alone: one run of the command-line tool, the server    *)
(* not running.                                                             *)

\* the data manager is constructed, no thread of it runs
ManagerAtRest ==
    /\ now = StartTime
    /\ output_file = NoFile
    /\ auto_update = FALSE
    /\ update_thread = "None"
    /\ should_stop = FALSE
    /\ wait_until = 0
    /\ sched_hist = NoHistory
    /\ pc = [p \in Threads |-> IF p = "api" THEN "idle" ELSE "not_started"]
    /\ locals = [p \in Threads |-> FreshLocals]
    /\ fetch_log = [p \in Threads |-> <<>>]

InitUpdater ==
    /\ ManagerAtRest
    /\ locations_file \in LocationsFiles(MaxUpdaterLocs)
    /\ \E retries \in 0..MaxRetries, delay \in RetryDelays :
          upd = [UpdaterOff EXCEPT !.pc = "start", !.max_retries = retries,
                                   !.retry_delay = delay]
    /\ live = LiveFresh
    /\ HandlersIdle
    /\ FnIdle

SpecUpdater == InitUpdater /\ [][UpdaterStep]_vars

\* the tool's process is scheduled until it exits
FairSpecUpdater == SpecUpdater /\ WF_vars(UpdaterStep)

-----------------------------------------------------------------------------
(* The two programs that build a snapshot, one at a time: a run of the     *)
(* updater tool while the server is down, or the server's forced updates   *)
(* while the tool is not run.                                               *)

InitPipelines ==
    /\ ManagerAtRest
    /\ locations_file \in LocationsFiles(MaxUpdaterLocs)
    /\ upd \in {UpdaterOff,
                [UpdaterOff EXCEPT !.pc = "start", !.max_retries = 1, !.retry_delay = 5]}
    /\ live = LiveFresh
    /\ HandlersIdle
    /\ FnIdle

\* the server handles a request for a forced update
ServerStep ==
    /\ upd.pc = "off"
    /\ NextBatch

NextPipelines ==
    \/ UpdaterStep
    \/ ServerStep

SpecPipelines == InitPipelines /\ [][NextPipelines]_vars

-----------------------------------------------------------------------------
(* The live data manager and the catalog: requests served over time while  *)
(* the locations file is edited.  The data manager and the live data       *)
(* manager have no state in common (both only read the locations file),    *)
(* so a run exercises one of them: forced updates of the data manager      *)
(* while the live data manager is untouched, or calls of the live data     *)
(* manager over time while no forced update has been made.                 *)

InitLive ==
    /\ ManagerAtRest
    /\ locations_file \in LocationsFiles(MaxLiveLocs)
    /\ upd = UpdaterOff
    /\ live = LiveFresh
    /\ HandlersIdle
    /\ FnIdle

\* no forced update has been made
NoBatchRun ==
    /\ pc["api"] = "idle"
    /\ locals["api"] = FreshLocals
    /\ fetch_log["api"] = <<>>
    /\ output_file = NoFile

NextLive ==
    \/ NoBatchRun /\ LiveLoadLocations
    \/ NoBatchRun /\ LiveGetWeatherData
    \/ NoBatchRun /\ ClockAdvances
    \/ CatalogEdited
    \/ live = LiveFresh /\ ForceUpdate
    \/ ForceUpdateReturn
    \/ LoadLocations("api")
    \/ FetchLocation("api")
    \/ FetchDone("api")
    \/ OpenOutputFile("api")
    \/ DumpChunk("api")
    \/ CloseOutputFile("api")

SpecLive == InitLive /\ [][NextLive]_vars

-----------------------------------------------------------------------------
(* The pure functions, applied to inputs drawn from bounded sets *)

\* the manager is constructed and nothing runs
ManagerIdle ==
    /\ now = StartTime
    /\ locations_file = [readable |-> FALSE, locations |-> <<>>]
    /\ auto_update = FALSE
    /\ update_thread = "None"
    /\ should_stop = FALSE
    /\ wait_until = 0
    /\ sched_hist = NoHistory
    /\ pc = [p \in Threads |-> IF p = "api" THEN "idle" ELSE "not_started"]
    /\ locals = [p \in Threads |-> FreshLocals]
    /\ fetch_log = [p \in Threads |-> <<>>]
    /\ OthersIdle

\* ... and there is no snapshot file
ManagerQuiet ==
    /\ ManagerIdle
    /\ output_file = NoFile

SeqsUpTo(S, n) == UNION {[1..k -> S] : k \in 0..n}

Restrict(f, S) == [x \in S |-> f[x]]

(* Staleness check *)

\* the snapshot file is up to MaxAgeHours hours old, to the second, a second
\* less or a second more
MaxAgeHours == 192

SnapshotAges == {h * 3600 + d : h \in 0..MaxAgeHours, d \in {-1, 0, 1}}

InitStale ==
    /\ ManagerIdle
    /\ output_file \in {NoFile} \cup
                       {[exists |-> TRUE, cells |-> Serialize(OldSnapshot), mtime |-> StartTime - a] :
                            a \in SnapshotAges}
    /\ fn_in = None
    /\ fn_out = FALSE
    /\ fn_out2 = FALSE
    /\ fn_pc = "init"
    /\ fn_impl = "data_manager"

\* self.should_update_data()
CheckStaleness ==
    /\ fn_pc = "init"
    /\ fn_out' = should_update_data
    /\ fn_pc' = "once"
    /\ UNCHANGED <<sysvars, othervars, fn_in, fn_out2, fn_impl>>

SpecStale == InitStale /\ [][CheckStaleness]_vars

(* Quality Validator *)

\* every key parameter is absent, not a list, or a series of at most MaxShort samples
MaxShort == 2
\* one key parameter has a series of at most MaxSamples samples
MaxSamples == 10

Absent == <<"#absent">>
KeyParamSet == Range(key_params)

\* all combinations of short series over the four key parameters, with or
\* without a fully populated parameter that is not a key parameter
ShortHourlies ==
    { LET present == {k \in KeyParamSet : f[k] # Absent}
          h == Restrict(f, present)
      IN  IF extra THEN Put(h, "dew_point_2m", <<"v", "v">>) ELSE h :
        f \in [KeyParamSet -> SeqsUpTo({Null, "v"}, MaxShort) \cup {NotAList, Absent}],
        extra \in BOOLEAN }

\* one key parameter with any series of up to MaxSamples samples, the other
\* key parameters absent or entirely null
LongHourlies ==
    { IF others_null
      THEN [k \in KeyParamSet |-> IF k = p THEN s ELSE [i \in DOMAIN s |-> Null]]
      ELSE Put(EmptyDict, p, s) :
        p \in KeyParamSet, s \in SeqsUpTo({Null, "v"}, MaxSamples), others_null \in BOOLEAN }

ValidatorInputs ==
    {None, EmptyDict, [latitude |-> 0]}
        \cup {[hourly |-> h, latitude |-> 0] : h \in ShortHourlies \cup LongHourlies}

InitValidate ==
    /\ ManagerQuiet
    /\ fn_in \in ValidatorInputs
    /\ fn_out = FALSE
    /\ fn_out2 = FALSE
    /\ fn_pc = "init"
    /\ fn_impl = "data_manager"

\* self._has_valid_weather_data(data)
Validate ==
    /\ fn_pc = "init"
    /\ fn_out' = has_valid_weather_data(fn_in)
    /\ fn_pc' = "once"
    /\ UNCHANGED <<sysvars, othervars, fn_in, fn_out2, fn_impl>>

SpecValidate == InitValidate /\ [][Validate]_vars

(* Field Normalizer *)

\* an input hourly map has at most MaxKeys keys
MaxKeys == 3

MappedFields == {field_mappings[i].generic : i \in DOMAIN field_mappings}
Aliases == UNION {Range(field_mappings[i].models) : i \in DOMAIN field_mappings}

\* the keys of input hourly maps: time, the canonical fields that have an alias
\* list and their aliases, a requested parameter without alias list in its
\* canonical and model-qualified forms, and a parameter that is not requested
FieldUniverse ==
    {"time", "surface_pressure", "cape"}
        \cup MappedFields \cup Aliases
        \cup {ModelQualified("surface_pressure", m) : m \in Range(requested_models)}

RECURSIVE KeySetsUpTo(_)
KeySetsUpTo(n) ==
    IF n = 0 THEN {{}}
    ELSE LET smaller == KeySetsUpTo(n - 1)
         IN  smaller \cup {S \cup {k} : S \in smaller, k \in FieldUniverse}

\* the series stored under key k: its first sample tells where it came from
Series(k) == <<k, Null>>

NormalizerInputs ==
    {None, EmptyDict, [latitude |-> 0]}
        \cup {[hourly |-> [k \in S |-> Series(k)], latitude |-> 0] : S \in KeySetsUpTo(MaxKeys)}

InitNormalize ==
    /\ ManagerQuiet
    /\ fn_in \in NormalizerInputs
    /\ fn_out = None
    /\ fn_out2 = None
    /\ fn_pc = "init"
    /\ fn_impl \in {"data_manager", "live_data_manager"}

ApplyNormalizer(impl, data) ==
    IF impl = "data_manager" THEN normalize_field_names(data)
    ELSE live_normalize_field_names(data)

\* data = self._normalize_field_names(data)
Normalize ==
    /\ fn_pc = "init"
    /\ fn_out' = ApplyNormalizer(fn_impl, fn_in)
    /\ fn_pc' = "once"
    /\ UNCHANGED <<sysvars, othervars, fn_in, fn_out2, fn_impl>>

\* the result is normalized once more
NormalizeAgain ==
    /\ fn_pc = "once"
    /\ fn_out2' = ApplyNormalizer(fn_impl, fn_out)
    /\ fn_pc' = "twice"
    /\ UNCHANGED <<sysvars, othervars, fn_in, fn_out, fn_impl>>

NextNormalize ==
    \/ Normalize
    \/ NormalizeAgain

SpecNormalize == InitNormalize /\ [][NextNormalize]_vars

(* Fetch Client and current conditions, on bodies the backend may send *)

\* a series of an input body has at most MaxSeries samples
MaxSeries == 2

\* get_current_conditions: current_hour_index = -1, "Get the latest available data"
current_hour_index == -1

Abs(n) == IF n < 0 THEN -n ELSE n

\* the series the backend may send under one key: any list of up to MaxSeries
\* samples, a value that is not a list, or nothing
UntrustedSeries == SeqsUpTo({Null, "v"}, MaxSeries) \cup {NotAList, Absent}

\* hourly maps over time, a model-qualified field, the canonical field it is
\* mapped to, and a field without mapping; the lengths are independent
UntrustedHourlies ==
    { LET all == [time |-> t, temperature_2m_ecmwf_ifs025 |-> m, cape |-> c,
                  temperature_2m |-> g]
      IN  Restrict(all, {k \in DOMAIN all : all[k] # Absent}) :
        t \in SeqsUpTo({"t"}, MaxSeries) \cup {Absent},
        m \in UntrustedSeries,
        c \in UntrustedSeries,
        g \in {Absent, <<"g", Null>>} }

\* what response.json() returns; None stands for a request that fails
UntrustedBodies ==
    {None, [latitude |-> 0]} \cup {[hourly |-> h] : h \in UntrustedHourlies}

ResponseOf(body) ==
    IF IsNone(body) THEN [kind |-> "timeout", body |-> None]
    ELSE [kind |-> "ok", body |-> body]

\* _fetch_live_weather_data of either class for one location
ApplyFetch(impl, city, body) ==
    IF impl = "data_manager"
    THEN fetch_live_weather_data(city, Coordinates(city), ResponseOf(body))
    ELSE live_fetch_live_weather_data(city, Coordinates(city), ResponseOf(body))

\* "isinstance(values, list) and len(values) > abs(current_hour_index)"
HasCurrentSample(values) ==
    IsList(values) /\ Len(values) > Abs(current_hour_index)

\* values[current_hour_index]
CurrentSample(values) == values[Len(values) + 1 + current_hour_index]

\* get_current_conditions(city), given what get_weather_data(city) returned;
\* fetch_time is copied from the record and is not modelled
current_conditions(city, data) ==
    IF Falsy(data) \/ "hourly" \notin DOMAIN data THEN None
    ELSE LET hourly == data["hourly"]
             params == {param \in DOMAIN hourly : HasCurrentSample(hourly[param])}
         IN  [city        |-> city,
              coordinates |-> IF "coordinates" \in DOMAIN data THEN data["coordinates"]
                              ELSE <<>>,
              timezone    |-> IF "timezone" \in DOMAIN data THEN data["timezone"]
                              ELSE "UTC",
              current     |-> [param \in params |-> CurrentSample(hourly[param])]]

\* the call record of get_weather_data(city), the backend answering response
\* to the request, if one is made
live_get_weather_data(city, response) ==
    LET locations == AfterLoad.cache
        call == [NoCall EXCEPT !.op = "get_weather_data", !.city = city, !.at = now,
                               !.read = CacheExpired, !.catalog = locations]
    IN  IF locations = <<>> \/ city \notin Keys(locations)
        THEN call
        ELSE [call EXCEPT
                 !.requests = <<[city |-> city,
                                 coordinates |-> CoordinatesIn(locations, city),
                                 response |-> response]>>,
                 !.data = live_fetch_live_weather_data(
                              city, CoordinatesIn(locations, city), response)]

InitRecord ==
    /\ ManagerAtRest
    /\ locations_file \in LocationsFiles(1)
    /\ upd = UpdaterOff
    /\ live = LiveFresh
    /\ HandlersIdle
    /\ fn_in \in UntrustedBodies
    /\ fn_out = None
    /\ fn_out2 = None
    /\ fn_pc = "init"
    /\ fn_impl \in {"data_manager", "live_data_manager"}

\* data = self._fetch_live_weather_data(city, coordinates), the backend
\* answering fn_in
FetchRecord ==
    /\ fn_pc = "init"
    /\ fn_out' = ApplyFetch(fn_impl, AllCities[1], fn_in)
    /\ fn_pc' = "once"
    /\ UNCHANGED <<sysvars, othervars, fn_in, fn_out2, fn_impl>>

\* LiveWeatherDataManager.get_current_conditions(city), the backend answering
\* fn_in: fn_out is what get_weather_data returned, fn_out2 the result
GetCurrentConditions ==
    /\ fn_pc = "init"
    /\ fn_impl = "live_data_manager"
    /\ pc["api"] = "idle"
    /\ \E city \in RequestedCities :
          LET call == live_get_weather_data(city, ResponseOf(fn_in))
          IN  /\ live' = [AfterLoad EXCEPT
                             !.call = [call EXCEPT !.op = "get_current_conditions"]]
              /\ fn_out' = call.data
              /\ fn_out2' = current_conditions(city, call.data)
    /\ fn_pc' = "conditions"
    /\ UNCHANGED <<sysvars, upd, life, web, fn_in, fn_impl>>

NextRecord ==
    \/ FetchRecord
    \/ GetCurrentConditions

SpecRecord == InitRecord /\ [][NextRecord]_vars

-----------------------------------------------------------------------------
(* The weather data endpoint: GET /api/data/weather with a limit, in live  *)
(* mode and in file mode.                                                   *)

MaxLimitLocs == 2
\* the upper end of "limit = max(1, min(limit, 300))"
MAX_LIMIT == 300

\* the limits that requests come with
Limits == (-1 .. MaxLimitLocs + 1) \cup {MAX_LIMIT, MAX_LIMIT + 1}

\* what the backend answers to the requests of this endpoint: no answer, or a
\* forecast
LimitResponses ==
    {r \in BackendResponses :
        r.kind = "timeout" \/ (r.kind = "ok" /\ r.body = [hourly |-> HourlyOf("v1")])}

\* "limit = max(1, min(limit, 300))"
ClampLimit(limit) == Max(1, Min({limit, MAX_LIMIT}))

\* the handler without its slices
SliceTo_All(d, n) == d

\* list(d.items())[:n], n negative counting from the end
SliceTo(d, n) ==
    IF n >= 0 THEN SubSeq(d, 1, Min({n, Len(d)}))
    ELSE SubSeq(d, 1, Max(Len(d) + n, 0))

\* the loop of _fetch_multiple_cities_data from location i on, responses[i]
\* being what the backend answers for location i: the break when count has
\* reached the limit, a record stored and counted when the fetch returned data
RECURSIVE FetchCitiesFrom(_, _, _, _, _)
FetchCitiesFrom(locations, limit, responses, i, acc) ==
    IF i > Len(locations) \/ (limit # 0 /\ Len(acc.result) >= limit) THEN acc
    ELSE LET city == locations[i].city
             data == live_fetch_live_weather_data(city, locations[i].coordinates,
                                                  responses[i])
             attempted == Append(acc.attempted, city)
         IN  FetchCitiesFrom(locations, limit, responses, i + 1,
                 IF Falsy(data) THEN [acc EXCEPT !.attempted = attempted]
                 ELSE [result |-> Append(acc.result, [city |-> city, data |-> data]),
                       attempted |-> attempted])

\* LiveWeatherDataManager._fetch_multiple_cities_data(locations, limit): the
\* result dict, and the cities it asked the backend for
fetch_multiple_cities_data(locations, limit, responses) ==
    FetchCitiesFrom(locations, limit, responses, 1, [result |-> <<>>, attempted |-> <<>>])

\* the snapshot file holding records of the first n cities
SnapshotFile(n) ==
    [exists |-> TRUE,
     cells |-> Serialize([i \in 1..n |->
                  [city |-> AllCities[i],
                   data |-> fetch_live_weather_data(AllCities[i], Coordinates(AllCities[i]),
                                [kind |-> "ok", body |-> [hourly |-> HourlyOf("v0")]])]]),
     mtime |-> 0]

\* the handler of GET /api/data/weather
GetWeatherData ==
    /\ pc["api"] = "idle"
    /\ \E sent \in Limits :
          LET limit == ClampLimit(sent)
              request == [NoRequest EXCEPT !.op = "get_weather_data",
                                           !.API_KEY = web.API_KEY,
                                           !.live_mode = web.live_mode,
                                           !.limit = sent]
          IN  IF web.live_mode
              THEN LET locations == AfterLoad.cache
                       limited_locations == SliceTo(locations, limit)
                   IN  /\ live' = [AfterLoad EXCEPT
                                      !.call = [NoCall EXCEPT !.op = "load_locations",
                                                              !.at = now,
                                                              !.read = CacheExpired,
                                                              !.catalog = locations]]
                       /\ IF locations = <<>>
                          THEN web' = [request EXCEPT !.status = 404]
                          ELSE \E responses \in [1..Len(limited_locations) -> LimitResponses] :
                                  LET fetched == fetch_multiple_cities_data(
                                                     limited_locations, limit, responses)
                                  IN  web' = [request EXCEPT
                                                 !.attempted = fetched.attempted,
                                                 !.data = fetched.result,
                                                 !.status = IF fetched.result = <<>>
                                                            THEN 503 ELSE 200]
              ELSE LET data == load_weather_data
                   IN  /\ web' = IF data.is_none
                                 THEN [request EXCEPT !.status = 404]
                                 ELSE [request EXCEPT
                                          !.status = 200,
                                          !.data = IF limit < Len(data.dict)
                                                   THEN SliceTo(data.dict, limit)
                                                   ELSE data.dict]
                       /\ UNCHANGED live
    /\ UNCHANGED <<sysvars, fnvars, upd, life>>

InitLimit ==
    /\ now = StartTime
    /\ locations_file \in LocationsFiles(MaxLimitLocs)
    /\ output_file \in {NoFile} \cup {SnapshotFile(n) : n \in 0..MaxLimitLocs}
    /\ auto_update = FALSE
    /\ update_thread = "None"
    /\ should_stop = FALSE
    /\ wait_until = 0
    /\ sched_hist = NoHistory
    /\ pc = [p \in Threads |-> IF p = "api" THEN "idle" ELSE "not_started"]
    /\ locals = [p \in Threads |-> FreshLocals]
    /\ fetch_log = [p \in Threads |-> <<>>]
    /\ upd = UpdaterOff
    /\ live = LiveFresh
    /\ life = LifeFresh
    /\ web \in {[NoRequest EXCEPT !.live_mode = m] : m \in BOOLEAN}
    /\ FnIdle

NextLimit ==
    \/ GetWeatherData

SpecLimit == InitLimit /\ [][NextLimit]_vars

-----------------------------------------------------------------------------
(* The force-update endpoint: requests with every combination of headers,  *)
(* and the batch an accepted request runs.                                  *)

MaxForceLocs == 1

InitForce ==
    /\ ManagerAtRest
    /\ locations_file \in LocationsFiles(MaxForceLocs)
    /\ upd = UpdaterOff
    /\ live = LiveFresh
    /\ life = LifeFresh
    /\ web \in {[NoRequest EXCEPT !.API_KEY = k] : k \in ApiKeys}
    /\ FnIdle

NextForce ==
    \/ ForceDataUpdate
    \/ ForceDataUpdateReturn
    \/ LoadLocations("api")
    \/ FetchLocation("api")
    \/ FetchDone("api")
    \/ OpenOutputFile("api")
    \/ DumpChunk("api")
    \/ CloseOutputFile("api")

SpecForce == InitForce /\ [][NextForce]_vars

-----------------------------------------------------------------------------
(* Claims about the batch and the snapshot *)

\* thread p takes a step
Steps(p) == pc'[p] # pc[p] \/ locals'[p] # locals[p] \/ fetch_log'[p] # fetch_log[p]

\* C1: a batch that accepts zero locations, or finds an empty catalog, is a
\* failed update: no step of it changes the snapshot file or what
\* load_weather_data returns, it never reaches the code that writes the file,
\* and the value it returns is False.
C1_ZeroYieldLeavesSnapshot ==
    [][\A p \in Threads :
          (InBatch(p) /\ Steps(p) /\ locals[p].live_data = <<>> /\ locals'[p].live_data = <<>>)
              => /\ output_file' = output_file
                 /\ load_weather_data' = load_weather_data
                 /\ pc'[p] \notin {"open", "dump"}
                 /\ (pc'[p] = "ret" => locals'[p].result = FALSE)]_vars

\* a batch has gone through a non-empty catalog, accepted nothing and returned
\* False, and the earlier snapshot is still what load_weather_data returns
C1_Witness ==
    \E p \in Threads :
        /\ pc[p] = "ret"
        /\ locals[p].locations # <<>>
        /\ locals[p].idx = Len(locals[p].locations)
        /\ locals[p].live_data = <<>>
        /\ locals[p].result = FALSE
        /\ load_weather_data = Some(OldSnapshot)

\* C2: at most one batch refresh is in flight at any time.
C2_OneBatchInFlight ==
    Cardinality({p \in Threads : pc[p] \in {"load", "fetch", "open", "dump"}}) <= 1

\* C3: while the update thread is replacing the snapshot file, a request
\* handler that calls load_weather_data gets the complete previous snapshot or
\* the complete new one.
C3_ReaderSeesOldOrNew ==
    (pc["sched"] = "dump" /\ pc["api"] = "idle")
        => load_weather_data \in {locals["sched"].before, Some(locals["sched"].live_data)}

\* C5: when a batch that accepted at least one location has written the file
\* and returns True, load_weather_data returns exactly the records the batch
\* accepted.
C5_PersistedSnapshotIsBatch ==
    [][\A p \in Threads :
          (pc[p] = "dump" /\ pc'[p] = "ret" /\ locals'[p].result = TRUE)
              => load_weather_data' = Some(locals[p].live_data)]_vars

\* C6: when a batch accepted at least one location and writing the snapshot
\* file fails, current() still returns the new snapshot.
C6_WriteFailureKeepsNew ==
    [][(pc["api"] \in {"open", "dump"} /\ pc'["api"] = "ret" /\ locals'["api"].result = FALSE)
          => load_weather_data' = Some(locals["api"].live_data)]_vars

\* what the backend answered to request i of the running loop made an accepted record
AcceptedAt(p, i) ==
    LET e == fetch_log[p][i]
        data == fetch_live_weather_data(e.city, Coordinates(e.city), e.response)
    IN  ~Falsy(data) /\ has_valid_weather_data(data)

\* the accepted records among the first n answers, in the order of the requests
RECURSIVE AcceptedRecords(_, _)
AcceptedRecords(p, n) ==
    IF n = 0 THEN <<>>
    ELSE LET e == fetch_log[p][n]
             rest == AcceptedRecords(p, n - 1)
         IN  IF AcceptedAt(p, n)
             THEN Append(rest, [city |-> e.city,
                                data |-> fetch_live_weather_data(e.city, Coordinates(e.city),
                                                                 e.response)])
             ELSE rest

\* C4: a location whose fetch fails never aborts the batch: the loop requests
\* every location of the catalog in order, its result holds exactly the
\* records that were fetched and accepted, and the failure count is the
\* number of the other locations; the loop is left only after the last location.
C4_FailuresNeverAbort ==
    \A p \in Threads :
        /\ pc[p] = "fetch" =>
              LET l == locals[p] IN
              /\ Len(fetch_log[p]) = l.idx
              /\ \A i \in 1..l.idx : fetch_log[p][i].city = l.locations[i].city
              /\ l.live_data = AcceptedRecords(p, l.idx)
              /\ l.completed = Cardinality({i \in 1..l.idx : AcceptedAt(p, i)})
              /\ l.failed = Cardinality({i \in 1..l.idx : ~AcceptedAt(p, i)})
        /\ pc[p] \in {"open", "dump"} => locals[p].idx = Len(locals[p].locations)
        /\ (pc[p] = "ret" /\ locals[p].locations # <<>>) =>
              locals[p].idx = Len(locals[p].locations)

\* three locations, the request for the second met a connection error: the
\* loop went on, and its result holds locations 1 and 3 with failure count 1
C4_Witness ==
    /\ pc["api"] = "fetch"
    /\ Len(locals["api"].locations) = 3
    /\ locals["api"].idx = 3
    /\ fetch_log["api"][2].response.kind = "connection_error"
    /\ [i \in DOMAIN locals["api"].live_data |-> locals["api"].live_data[i].city]
          = <<AllCities[1], AllCities[3]>>
    /\ locals["api"].failed = 1

-----------------------------------------------------------------------------
(* Claims about the Quality Validator *)

NonNullIndices(values) == {i \in DOMAIN values : values[i] # Null}

\* the fraction of non-null samples of a series is strictly greater than 0.25
ClearsThreshold(values) ==
    /\ Len(values) > 0
    /\ 4 * Cardinality(NonNullIndices(values)) > Len(values)

Acceptable(data) ==
    /\ ~Falsy(data)
    /\ "hourly" \in DOMAIN data
    /\ \E k \in KeyParamSet :
          /\ k \in DOMAIN data["hourly"]
          /\ IsList(data["hourly"][k])
          /\ ClearsThreshold(data["hourly"][k])

-----------------------------------------------------------------------------
(* Claims about the Field Normalizer *)

MappingsOf(impl) == IF impl = "data_manager" THEN field_mappings ELSE live_field_mappings

HasHourly(data) == ~Falsy(data) /\ "hourly" \in DOMAIN data

\* the positions of the aliases of a row that are keys of hourly
PresentAliases(row, hourly) == {j \in DOMAIN row.models : row.models[j] \in DOMAIN hourly}

\* the alias list of every canonical field names the three models in the
\* order ecmwf_ifs025, ncep_gfs025, meteofrance_arpege_world025
AliasOrder(mappings) ==
    \A i \in DOMAIN mappings :
        mappings[i].models = [j \in 1..3 |-> ModelQualified(mappings[i].generic,
                                                            requested_models[j])]

\* the canonical field of a row has the value of the present alias of highest priority
HighestPriorityAliasWins(row, hin, hout) ==
    PresentAliases(row, hin) # {} =>
        /\ row.generic \in DOMAIN hout
        /\ hout[row.generic] = hin[row.models[Min(PresentAliases(row, hin))]]

\* C8 as stated: for every input, each canonical field with an alias list has
\* the value of the highest-priority alias present in the input, and if no
\* alias of the field is present the canonical field is absent from the output.
C8_AbsentWithoutAlias ==
    (fn_pc # "init" /\ HasHourly(fn_in)) =>
        LET hin == fn_in["hourly"]
            hout == fn_out["hourly"]
            mappings == MappingsOf(fn_impl)
        IN  /\ AliasOrder(mappings)
            /\ \A i \in DOMAIN mappings :
                  /\ HighestPriorityAliasWins(mappings[i], hin, hout)
                  /\ PresentAliases(mappings[i], hin) = {}
                        => mappings[i].generic \notin DOMAIN hout

\* C8 amended: for every input, each canonical field with an alias list has
\* the value of the highest-priority alias present in the input (order
\* ecmwf_ifs025, ncep_gfs025, meteofrance_arpege_world025), also when the input
\* has the field under its canonical name; if no alias of the field is
\* present, the canonical field is in the output exactly when the input has it
\* under its canonical name, with the input's value, and is never null-filled.
C8_HighestPriorityAlias ==
    (fn_pc # "init" /\ HasHourly(fn_in)) =>
        LET hin == fn_in["hourly"]
            hout == fn_out["hourly"]
            mappings == MappingsOf(fn_impl)
        IN  /\ AliasOrder(mappings)
            /\ \A i \in DOMAIN mappings :
                  LET g == mappings[i].generic IN
                  /\ HighestPriorityAliasWins(mappings[i], hin, hout)
                  /\ PresentAliases(mappings[i], hin) = {}
                        => /\ g \in DOMAIN hout <=> g \in DOMAIN hin
                           /\ g \in DOMAIN hin => hout[g] = hin[g]

\* the input has the second and third alias of temperature_2m and the canonical
\* name too; the output's temperature_2m is the series of the second alias
C8_Witness ==
    /\ fn_pc = "once"
    /\ HasHourly(fn_in)
    /\ DOMAIN fn_in["hourly"] = {"temperature_2m", "temperature_2m_ncep_gfs025",
                                 "temperature_2m_meteofrance_arpege_world025"}
    /\ fn_out["hourly"]["temperature_2m"] = fn_in["hourly"]["temperature_2m_ncep_gfs025"]
    /\ fn_out["hourly"]["temperature_2m"] # fn_in["hourly"]["temperature_2m"]

\* C9: the normalizer is idempotent: normalize(normalize(x)) = normalize(x) for
\* every input x, and an input whose hourly map has only canonical keys is
\* returned unchanged.
C9_Idempotent ==
    /\ fn_pc = "twice" => fn_out2 = fn_out
    /\ (fn_pc # "init" /\ HasHourly(fn_in) /\ DOMAIN fn_in["hourly"] \subseteq CanonicalNames)
          => fn_out = fn_in

\* an input with an alias was normalized twice: the first pass changed it, the
\* second pass changed nothing
C9_Witness ==
    /\ fn_pc = "twice"
    /\ HasHourly(fn_in)
    /\ DOMAIN fn_in["hourly"] \cap Aliases # {}
    /\ fn_out # fn_in
    /\ fn_out2 = fn_out

\* the keys the backend is asked for: canonical names, and every requested
\* parameter qualified by one of the three requested models
RequestedShapes ==
    CanonicalNames \cup {ModelQualified(f, m) : f \in Range(weather_params),
                                                m \in Range(requested_models)}

\* C10: for every raw hourly map whose keys are canonical names or
\* model-qualified names of the three requested models, the normalizer output
\* is keyed only by canonical names.
C10_OnlyCanonicalKeys ==
    (fn_pc # "init" /\ HasHourly(fn_in) /\ DOMAIN fn_in["hourly"] \subseteq RequestedShapes)
        => DOMAIN fn_out["hourly"] \subseteq CanonicalNames

\* the aliases the normalizer of a class recognizes
AliasesOf(impl) == UNION {Range(MappingsOf(impl)[i].models) : i \in DOMAIN MappingsOf(impl)}

\* C11: the normalizer copies the time field as it is, passes every input
\* field that is neither a canonical name nor a recognized alias through under
\* the same key with the same value, and leaves everything of the record
\* outside hourly unchanged.
C11_PassThrough ==
    /\ (fn_pc # "init" /\ ~HasHourly(fn_in)) => fn_out = fn_in
    /\ (fn_pc # "init" /\ HasHourly(fn_in)) =>
          LET hin == fn_in["hourly"]
              hout == fn_out["hourly"]
          IN  /\ "time" \in DOMAIN hin => ("time" \in DOMAIN hout /\ hout["time"] = hin["time"])
              /\ \A k \in DOMAIN hin \ (CanonicalNames \cup AliasesOf(fn_impl)) :
                    k \in DOMAIN hout /\ hout[k] = hin[k]
              /\ DOMAIN fn_out = DOMAIN fn_in
              /\ \A k \in DOMAIN fn_in \ {"hourly"} : fn_out[k] = fn_in[k]

\* the input has the time field, a parameter that is not requested and an
\* alias: the first two are in the output as they were, the alias was renamed
C11_Witness ==
    /\ fn_pc = "once"
    /\ HasHourly(fn_in)
    /\ DOMAIN fn_in["hourly"] = {"time", "cape", "dew_point_2m_ncep_gfs025"}
    /\ DOMAIN fn_out["hourly"] = {"time", "cape", "dew_point_2m"}
    /\ fn_out["hourly"]["time"] = fn_in["hourly"]["time"]
    /\ fn_out["hourly"]["cape"] = fn_in["hourly"]["cape"]
    /\ fn_out["latitude"] = fn_in["latitude"]

-----------------------------------------------------------------------------
(* Claims about the Refresh Scheduler *)

\* the age of the snapshot file, in seconds
SnapshotAge == now - output_file.mtime

\* C12: the staleness check reports due exactly when the snapshot does not
\* exist or its age, now minus the file's modification time, is at least the
\* refresh interval of 7 days: due at 8 days and at 7 days to the second, not
\* due at 1 hour and at one second less than 7 days.
C12_DueAtInterval ==
    /\ DATA_UPDATE_INTERVAL = 7 * 86400
    /\ fn_pc = "once" =>
          (fn_out <=> (~output_file.exists \/ SnapshotAge >= 7 * 86400))

\* the snapshot was saved 8 days ago and the check reports due
C12_Witness ==
    /\ fn_pc = "once"
    /\ output_file.exists
    /\ SnapshotAge = 8 * 86400
    /\ fn_out = TRUE

\* the scheduler state a position of the update thread belongs to
SchedState(position) ==
    CASE position = "not_started" -> "Idle"
      [] position = "wait_initial" -> "WaitingInitial"
      [] position \in {"startup_check", "check"} -> "CheckDue"
      [] position \in {"load", "fetch", "open", "dump", "ret"} -> "Refreshing"
      [] position \in {"loop", "wait_check"} -> "WaitingInterval"
      [] position = "wait_backoff" -> "Backoff"
      [] position = "exited" -> "Stopped"

SchedTransitions ==
    { <<"Idle", "WaitingInitial">>, <<"WaitingInitial", "CheckDue">>,
      <<"CheckDue", "Refreshing">>, <<"CheckDue", "WaitingInterval">>,
      <<"Refreshing", "WaitingInterval">>, <<"WaitingInterval", "CheckDue">>,
      <<"CheckDue", "Backoff">>, <<"Backoff", "WaitingInterval">>,
      <<"WaitingInterval", "Stopped">>, <<"Stopped", "WaitingInitial">> }

\* the update thread evaluates should_update_data in this step
ChecksStaleness ==
    /\ sched_hist'.checked_at # sched_hist.checked_at
    /\ sched_hist'.checked_at = now

\* the update thread calls _perform_update in this step
StartsRefresh == pc["sched"] # "load" /\ pc'["sched"] = "load"

\* C13: the scheduler follows Idle, Waiting(initialDelay), CheckDue,
\* Refreshing, Waiting(interval): no staleness check and no refresh happens
\* before the initial delay of 30 s has elapsed since the thread started, and
\* a scheduled batch is started only from CheckDue, when the staleness check
\* returned due and the stop signal is not set.
C13_SchedulerOrder ==
    [][/\ SchedState(pc'["sched"]) # SchedState(pc["sched"])
             => <<SchedState(pc["sched"]), SchedState(pc'["sched"])>> \in SchedTransitions
       /\ ChecksStaleness => now >= sched_hist.started_at + 30
       /\ StartsRefresh => /\ SchedState(pc["sched"]) = "CheckDue"
                           /\ should_update_data
                           /\ ~should_stop
                           /\ now >= sched_hist.started_at + 30]_vars

\* the update thread has just started its first refresh, 30 s after it started
C13_Witness ==
    /\ pc["sched"] = "load"
    /\ sched_hist.refresh_at = sched_hist.started_at + 30
    /\ now = sched_hist.refresh_at
    /\ ~should_stop

\* C14: after every refresh the scheduler goes to the normal wait of 6 hours,
\* whether the refresh succeeded or failed: the return of _perform_update
\* leads to the while test of the loop whatever the result, and from there,
\* unless the stop signal is set, to a wait of 21600 s.
C14_NormalWaitAfterRefresh ==
    [][/\ (pc["sched"] = "ret" /\ pc'["sched"] # "ret")
             => /\ pc'["sched"] = "loop"
                /\ wait_until' = wait_until
                /\ now' = now
       /\ (pc["sched"] = "loop" /\ pc'["sched"] # "loop" /\ ~should_stop)
             => /\ pc'["sched"] = "wait_check"
                /\ wait_until' = now + 21600]_vars

\* a refresh failed, and the update thread is in the wait that follows it: the
\* wait ends 6 hours after the refresh was started
C14_Witness ==
    /\ pc["sched"] = "wait_check"
    /\ sched_hist.last_result = "failed"
    /\ now = sched_hist.refresh_at
    /\ wait_until = sched_hist.refresh_at + 21600

\* C15: when an internal error occurs in the wait/check loop, the scheduler
\* waits the error backoff of 10 minutes and then makes the next staleness
\* check: the first check after an error is 600 s after the error.
C15_CheckAfterBackoff ==
    [][(ChecksStaleness /\ sched_hist.error_at > sched_hist.checked_at)
          => now = sched_hist.error_at + 600]_vars

\* C16: a stop signal raised while the update thread is in a wait (initial
\* delay, 6-hour wait, error backoff) ends the wait at once: from the signal on
\* no time is spent in a wait, no staleness check is made and no refresh is
\* started; and after a stop signal the thread always ends (Stopped).
C16_StopEndsWaits ==
    /\ [][(should_stop /\ update_thread = "alive")
             => /\ now' = now
                /\ ~ChecksStaleness
                /\ ~StartsRefresh
                /\ (pc["sched"] \in Waits /\ pc'["sched"] # pc["sched"])
                      => pc'["sched"] \in {"startup_check", "check", "loop"}
                /\ (pc["sched"] \in {"startup_check", "check"} /\ pc'["sched"] # pc["sched"])
                      => pc'["sched"] \in {"loop", "wait_backoff"}
                /\ (pc["sched"] = "loop" /\ pc'["sched"] # pc["sched"])
                      => pc'["sched"] = "exited"]_vars
    /\ (should_stop /\ update_thread = "alive") ~> (pc["sched"] = "exited")

\* the stop signal came during the initial delay: the thread has ended without
\* ever checking staleness, and no time has passed since it was started
C16_Witness ==
    /\ pc["sched"] = "exited"
    /\ update_thread = "dead"
    /\ should_stop
    /\ sched_hist.checked_at = -1
    /\ now = sched_hist.started_at

\* the update thread sends the request for the next location in this step
StartsFetch == Len(fetch_log'["sched"]) > Len(fetch_log["sched"])

\* C17: when the scheduler is stopped while a batch is in flight, the batch
\* loop exits before its next iteration: no fetch for a further location is
\* started once the stop signal is set.
C17_NoFetchAfterStop ==
    [][~(should_stop /\ StartsFetch)]_vars

\* the moment the snapshot's age reaches the refresh interval
StaleAt == output_file.mtime + DATA_UPDATE_INTERVAL

\* C18: while the scheduler is running and idle, once the snapshot's age
\* reaches the refresh interval a refresh is started within one check period
\* of 6 hours: the thread is never found waiting, with no refresh started since
\* that moment, later than 21600 s after it.
C18_RefreshWithinCheckPeriod ==
    ( /\ update_thread = "alive"
      /\ ~should_stop
      /\ SchedState(pc["sched"]) # "Refreshing"
      /\ output_file.exists
      /\ StaleAt >= sched_hist.started_at
      /\ sched_hist.refresh_at < StaleAt )
        => now <= StaleAt + 21600

\* C19: after any update of the scheduler that fails (zero accepted
\* locations, empty catalog, or an error while writing the snapshot), the
\* staleness check still reports due.
C19_FailedUpdateStaysDue ==
    [][(pc["sched"] # "ret" /\ pc'["sched"] = "ret" /\ ~locals'["sched"].result)
          => should_update_data']_vars

-----------------------------------------------------------------------------
(* Claims about the rate limit of the batch *)

\* C20: in a batch the orchestrator waits at least the rate-limit delay of
\* 1.1 s between any two consecutive location fetch attempts, whether the
\* preceding attempts succeeded or failed.
C20_DelayBetweenAttempts ==
    \A p \in Threads :
        \A i \in 2..Len(fetch_log[p]) : fetch_log[p][i].slept_ms >= 1100

-----------------------------------------------------------------------------
(* Claims about the yield of a batch *)

CatalogIndex(catalog, city) == IndexOf(catalog, city)

\* the records of a result are records of catalog locations, in catalog order
InCatalogOrder(catalog, records) ==
    /\ \A k \in DOMAIN records : records[k].city \in Keys(catalog)
    /\ \A j, k \in DOMAIN records :
          j < k => CatalogIndex(catalog, records[j].city) < CatalogIndex(catalog, records[k].city)

\* the entry cells of a file, in file order
EntryCells(cells) == SelectSeq(cells, IsEntryCell)

-----------------------------------------------------------------------------
(* Claims about the Fetch Client *)

\* the causes of failure the Fetch Client is to tell apart
FailureCauses == {"timeout", "connection_error", "http_error"}

\* C23: the Fetch Client reports timeout, connection failure and non-2xx
\* status as distinct outcomes: when a fetch failed for one of these causes,
\* the value returned to the caller differs from the value returned for each
\* of the other two causes.
C23_DistinctFailureOutcomes ==
    \A i \in DOMAIN live.call.requests :
        LET request == live.call.requests[i] IN
        request.response.kind \in FailureCauses =>
            \A other \in FailureCauses \ {request.response.kind} :
                live.call.data # live_fetch_live_weather_data(
                                     request.city, request.coordinates,
                                     [kind |-> other, body |-> None])

\* why request i of the running loop did not make an accepted record: the
\* failure of the request, or a payload the validator rejects
RejectionCause(p, i) ==
    IF fetch_log[p][i].response.kind = "ok" THEN "low_quality"
    ELSE fetch_log[p][i].response.kind

RejectedRequests(p) == {i \in DOMAIN fetch_log[p] : ~AcceptedAt(p, i)}

\* the rejections of the running loop by cause, as in {timeout: 1}
TallyByCause(p) ==
    [cause \in {RejectionCause(p, i) : i \in RejectedRequests(p)} |->
        Cardinality({i \in RejectedRequests(p) : RejectionCause(p, i) = cause})]

\* the rejections as the loop counts them: all in the one counter "failed"
CountedRejections(p) ==
    [counter \in (IF locals[p].failed > 0 THEN {"failed"} ELSE {}) |-> locals[p].failed]

\* C24: when the batch loop has gone through the catalog, the batch has the
\* number of locations it was given and a tally of its rejections by cause:
\* with Paris accepted and Tokyo timing out, records {Paris}, 2 source
\* locations and the tally {timeout: 1}.
C24_RejectionsTalliedByCause ==
    \A p \in Threads :
        (pc[p] = "fetch" /\ locals[p].idx = Len(locals[p].locations)) =>
            /\ Len(fetch_log[p]) = Len(locals[p].locations)
            /\ CountedRejections(p) = TallyByCause(p)

\* the requests the running loop has made for a city
AttemptsFor(p, city) == {i \in DOMAIN fetch_log[p] : fetch_log[p][i].city = city}

\* C25: the Fetch Client makes one HTTP attempt per call, and the batch
\* retries a location whose attempt failed, up to the configured retry count
\* with the configured delay before each retry, before it counts the
\* location as rejected: a location is counted as failed after a failed
\* request only when MAX_RETRIES + 1 requests have been made for it, each
\* retry RETRY_DELAY seconds or more after the one before.
C25_BatchRetriesFailedLocation ==
    \A p \in Threads :
        pc[p] = "fetch" =>
            \A i \in 1..locals[p].idx :
                LET city == locals[p].locations[i].city
                    attempts == AttemptsFor(p, city)
                IN  (\A a \in attempts : fetch_log[p][a].response.kind # "ok")
                        => /\ Cardinality(attempts) = MAX_RETRIES + 1
                           /\ \A a \in attempts :
                                 a # Min(attempts)
                                     => fetch_log[p][a].slept_ms >= RETRY_DELAY * 1000

-----------------------------------------------------------------------------
(* Claims about the updater tool *)

\* fetch_weather_data has returned
FetchReturned == upd.pc = "validate"

\* every attempt before attempt j of the running fetch failed
tries_before_failed(j) == \A k \in 1..(j - 1) : upd.tries[k].response.kind # "ok"

\* C26: the updater's fetch for one location makes at most max_retries + 1
\* HTTP attempts and always returns: no attempt follows a successful one,
\* whose data is what is returned; every attempt after the first comes
\* retry_delay seconds after a failed one; when requests keep failing the
\* fetch gives up only after attempt max_retries + 1 and returns the empty
\* result, which the batch does not store.
C26_BoundedRetries ==
    /\ [](LET n == Len(upd.tries) IN
          /\ n <= upd.max_retries + 1
          /\ \A j \in 1..n :
                /\ tries_before_failed(j)
                /\ upd.tries[j].slept = IF j = 1 THEN 0 ELSE upd.retry_delay
          /\ (FetchReturned /\ upd.tries[n].response.kind = "ok")
                => upd.data = upd.tries[n].response.body
          /\ (FetchReturned /\ upd.tries[n].response.kind # "ok")
                => upd.data = EmptyDict
          /\ (FetchReturned /\ upd.tries[n].response.kind \in RequestExceptions)
                => n = upd.max_retries + 1)
    /\ [][(FetchReturned /\ upd.data = EmptyDict /\ upd'.pc # upd.pc)
             => upd'.output = upd.output]_vars
    /\ (upd.pc = "attempt") ~> FetchReturned

\* with --retries 2 the three requests for a location failed: the fetch has
\* returned the empty result after sleeping retry_delay twice
C26_Witness ==
    /\ FetchReturned
    /\ upd.max_retries = 2
    /\ Len(upd.tries) = 3
    /\ \A j \in 1..3 : upd.tries[j].response.kind \in RequestExceptions
    /\ upd.tries[2].slept + upd.tries[3].slept = 2 * upd.retry_delay
    /\ upd.data = EmptyDict

\* a load of the locations file by the live data manager has succeeded and no
\* more than 300 seconds have passed since
InCacheWindow ==
    /\ live.loaded_at >= 0
    /\ now - live.loaded_at <= 300

\* C27: for 300 seconds after a successful load of the catalog by the live data
\* manager, every call that needs the catalog is given the mapping of that load
\* without the file being opened, whatever the file holds by then; the file is
\* opened again only by a call made more than 300 seconds after that load.
C27_CatalogCachedFor300Seconds ==
    /\ [](InCacheWindow =>
            /\ live.cached
            /\ live.cache_time = live.loaded_at
            /\ live.cache = live.loaded)
    /\ [][live'.call # live.call =>
            /\ InCacheWindow =>
                  /\ ~live'.call.read
                  /\ live'.call.catalog = live.loaded
                  /\ live'.loaded_at = live.loaded_at
                  /\ live'.loaded = live.loaded
            /\ (live.loaded_at >= 0 /\ live'.call.read) =>
                  live'.call.at - live.loaded_at > 300]_vars

\* a call made exactly 300 seconds after the load, when the file has been
\* changed since, was served the loaded mapping without a read
C27_Witness ==
    /\ live.call.op # "none"
    /\ live.loaded_at >= 0
    /\ live.call.at = live.loaded_at + 300
    /\ now = live.call.at
    /\ ~live.call.read
    /\ live.call.catalog = live.loaded
    /\ locations_file.readable
    /\ locations_file.locations # live.loaded

\* C28: the catalog fails closed.  A load_locations call of the live data
\* manager that opens the locations file and cannot read or parse it returns
\* the empty mapping, whatever an earlier load had returned, and it always
\* returns (it can be called in every state in which a handler can run); the
\* data manager's reading of the file gives the empty mapping likewise, and a
\* batch that finds the catalog empty makes no request, writes nothing, and
\* returns False.
C28_CatalogFailsClosed ==
    /\ []((CacheExpired /\ ~locations_file.readable) => AfterLoad.cache = <<>>)
    /\ [](pc["api"] = "idle" => ENABLED LiveLoadLocations)
    /\ [](~locations_file.readable => load_locations = <<>>)
    /\ [][(live'.call # live.call /\ live'.call.read /\ ~locations_file.readable)
            => /\ live'.call.catalog = <<>>
               /\ live'.cache = <<>>]_vars
    /\ [][(pc["api"] = "load" /\ pc'["api"] # "load" /\ load_locations = <<>>)
            => /\ pc'["api"] = "ret"
               /\ locals'["api"].result = FALSE
               /\ fetch_log'["api"] = <<>>
               /\ output_file' = output_file]_vars
    /\ []((pc["api"] = "ret" /\ locals["api"].locations = <<>>)
            => /\ fetch_log["api"] = <<>>
               /\ locals["api"].result = FALSE)

\* the live data manager had loaded a catalog with locations, and a later call
\* that found the file unreadable was given the empty mapping
C28_Witness ==
    /\ live.loaded # <<>>
    /\ live.call.op # "none"
    /\ live.call.read
    /\ live.call.at > live.loaded_at + 300
    /\ live.call.catalog = <<>>
    /\ ~locations_file.readable

\* C30: get_weather_data(city) of the live data manager, for a city that is
\* not in the catalog, returns None (the handler's "not found") without any
\* request to the backend; for a city of the catalog it makes exactly one
\* request, with the coordinates the catalog holds for that city, and returns
\* what that one fetch returned.
C30_UnknownCityNoRequest ==
    live.call.op = "get_weather_data" =>
        LET call == live.call
        IN  /\ call.catalog = live.cache
            /\ IF call.city \notin Keys(call.catalog)
               THEN /\ call.data = None
                    /\ call.requests = <<>>
               ELSE /\ Len(call.requests) = 1
                    /\ call.requests[1].city = call.city
                    /\ call.requests[1].coordinates = Coordinates(call.city)
                    /\ call.requests[1].coordinates =
                           CoordinatesIn(call.catalog, call.city)
                    /\ call.data = live_fetch_live_weather_data(
                                       call.city, Coordinates(call.city),
                                       call.requests[1].response)

\* a city that is in no catalog was asked for while the catalog held
\* locations: None, and no request
C30_Witness ==
    /\ live.call.op = "get_weather_data"
    /\ live.call.catalog # <<>>
    /\ live.call.city \notin Keys(live.call.catalog)
    /\ live.call.data = None
    /\ live.call.requests = <<>>

\* C29: force_update can be called whenever a handler runs, whatever the age of
\* the snapshot; the handler gets its answer only when the batch run on its own
\* thread has returned; the batch returns True only after the loop has gone
\* through every location of the catalog, at least one record was accepted and the
\* whole file was written, and load_weather_data then returns the accepted
\* records; it returns False when the catalog is empty, when nothing was
\* accepted, and when opening or writing the file failed.
C29_ForceUpdateSynchronous ==
    /\ [](pc["api"] = "idle" => ENABLED ForceUpdate)
    /\ [][(pc["api"] # "idle" /\ pc'["api"] = "idle") => pc["api"] = "ret"]_vars
    /\ [][(pc["api"] # "ret" /\ pc'["api"] = "ret") =>
            LET l == locals["api"]
                written == pc["api"] = "dump" /\ l.offset = Len(Serialize(l.live_data))
            IN  /\ pc["api"] \in {"load", "fetch", "open", "dump"}
                /\ locals'["api"].result = TRUE =>
                      /\ written
                      /\ l.locations # <<>>
                      /\ l.idx = Len(l.locations)
                      /\ l.live_data # <<>>
                      /\ load_weather_data' = Some(l.live_data)
                /\ locals'["api"].result = FALSE =>
                      \/ pc["api"] = "load" /\ load_locations = <<>>
                      \/ pc["api"] = "fetch" /\ l.live_data = <<>>
                      \/ pc["api"] \in {"open", "dump"} /\ ~written
                /\ (pc["api"] = "load" \/ l.live_data = <<>> \/ ~written) =>
                      locals'["api"].result = FALSE]_vars

-----------------------------------------------------------------------------
(* Claims about the records of the Fetch Client *)

\* C31: get_current_conditions(city) returns None when get_weather_data
\* returned nothing (unknown city, failed fetch) or a record without hourly;
\* otherwise, for every hourly field whose series is a list of at least one
\* sample, the current map of the result holds the last sample of the series.
C31_CurrentIsLastSample ==
    fn_pc = "conditions" =>
        IF Falsy(fn_out) \/ "hourly" \notin DOMAIN fn_out
        THEN fn_out2 = None
        ELSE /\ fn_out2 # None
             /\ \A param \in DOMAIN fn_out["hourly"] :
                   LET values == fn_out["hourly"][param]
                   IN  (IsList(values) /\ Len(values) >= 1) =>
                          /\ param \in DOMAIN fn_out2["current"]
                          /\ fn_out2["current"][param] = values[Len(values)]

\* C32: in every record the Fetch Client returns, every hourly field that
\* holds a list has as many samples as the time field of the record.
C32_SeriesAlignedWithTime ==
    (fn_pc = "once" /\ ~Falsy(fn_out) /\ "hourly" \in DOMAIN fn_out) =>
        \A field \in DOMAIN fn_out["hourly"] :
            IsList(fn_out["hourly"][field]) =>
                /\ "time" \in DOMAIN fn_out["hourly"]
                /\ Len(fn_out["hourly"][field]) = Len(fn_out["hourly"]["time"])

\* the input keys an output field can come from: the field itself and the
\* model-qualified names mapped to it
SourceKeys(mappings, field) ==
    {field} \cup UNION {Range(mappings[i].models) :
                           i \in {j \in DOMAIN mappings : mappings[j].generic = field}}

\* the output series has the length of the input series, null where it is
\* null and the same value elsewhere
SameSamples(out, in) ==
    IF ~IsList(in) THEN out = in
    ELSE /\ IsList(out)
         /\ Len(out) = Len(in)
         /\ \A n \in DOMAIN in : /\ (out[n] = Null) <=> (in[n] = Null)
                                 /\ in[n] # Null => out[n] = in[n]

-----------------------------------------------------------------------------
(* Claims about starting and stopping the update thread *)

\* stop_background_updates has set the stop signal and has returned
StopReturned == should_stop /\ pc["api"] = "idle"

\* C35: stop_background_updates returns only when the update thread has
\* ended, and once it has returned the thread sends no request for a location
\* and does not touch the snapshot file.
C35_StoppedMeansTerminated ==
    /\ [][(pc["api"] = "join" /\ pc'["api"] = "idle") => update_thread = "dead"]_vars
    /\ [][StopReturned => (~StartsFetch /\ output_file' = output_file)]_vars

\* C36: with automatic updates enabled, a start call leaves a loop running
\* that goes on checking.  A call that creates a thread leaves it alive with
\* the stop signal cleared; and whenever a call can be made that would find
\* the update thread alive, and so return without creating a thread, that
\* thread is not under a stop signal (it is not a loop about to end).
C36_RestartNotLost ==
    /\ [][sched_hist'.starts > sched_hist.starts
             => (update_thread' = "alive" /\ ~should_stop')]_vars
    /\ []((pc["api"] = "idle" /\ auto_update /\ update_thread = "alive")
             => ~should_stop)

\* C34: under any interleaving of start_background_updates calls on one manager
\* at most one update loop is alive, and a call made while a loop is alive, or
\* with automatic updates disabled, creates no thread
C34_AtMostOneLoop ==
    /\ [](LoopsAlive <= 1)
    /\ [][life'.created > life.created => (auto_update /\ LoopsAlive = 0)]_vars

-----------------------------------------------------------------------------
(* Claims about the request handlers and the catalog they load *)

\* the last call of the live data manager opened the locations file and could
\* not read or parse it
LastLoadFailed ==
    /\ live.call.op # "none"
    /\ live.call.read
    /\ live.loaded_at # live.call.at

CarriedKeys(request) ==
    {header \in {request.x_api_key,
                 SelectSeq(request.authorization, LAMBDA part : part # "Bearer ")} :
        header # NoHeader}

\* the request carries a non-empty key equal to the configured API key
CarriesApiKey(request) ==
    \E key \in CarriedKeys(request) : key # <<>> /\ key = request.API_KEY

\* C39: the force-update endpoint starts a batch only when the request carries a
\* non-empty key equal to the configured API key, in the X-API-Key header or as
\* Bearer token; any other request is answered 401 Unauthorized, makes no
\* request to the backend and leaves the snapshot file as it is.
C39_ForceUpdateNeedsKey ==
    /\ [](\A x_api_key \in XApiKeyHeaders, authorization \in AuthorizationHeaders :
             Authorized(presented_key(x_api_key, authorization), web.API_KEY)
                 => CarriesApiKey([NoRequest EXCEPT !.API_KEY = web.API_KEY,
                                                    !.x_api_key = x_api_key,
                                                    !.authorization = authorization]))
    /\ [](InBatch("api") => (web.op = "force_data_update" /\ CarriesApiKey(web)))
    /\ [][(pc["api"] = "idle" /\ pc'["api"] # "idle")
            => (web'.op = "force_data_update" /\ web'.status = 0 /\ CarriesApiKey(web'))]_vars
    /\ [][(pc["api"] = "idle" /\ web' # web /\ ~CarriesApiKey(web'))
            => /\ web'.status = 401
               /\ pc'["api"] = "idle"
               /\ fetch_log' = fetch_log
               /\ output_file' = output_file]_vars
    /\ []((web.op = "force_data_update" /\ ~CarriesApiKey(web))
            => (web.status = 401 /\ ~InBatch("api")))

\* a request with the key as Bearer token has run a batch that wrote the
\* snapshot, and a later request, whose key is another one, has been answered
\* 401 with no batch begun
C39_Witness ==
    /\ web.op = "force_data_update"
    /\ web.status = 401
    /\ web.API_KEY = <<"key-A">>
    /\ web.x_api_key = NoHeader
    /\ web.authorization = <<"Bearer ", "key-B">>
    /\ output_file.exists
    /\ pc["api"] = "idle"
    /\ ENABLED ForceDataUpdate

\* the limit in force for a request: the limit sent, brought into 1..300
EffectiveLimit(sent) == IF sent < 1 THEN 1 ELSE IF sent > 300 THEN 300 ELSE sent

\* the first n entries of a dict, all of them when it has fewer
FirstN(d, n) == [i \in 1..(IF n < Len(d) THEN n ELSE Len(d)) |-> d[i]]

CitiesOf(d) == [i \in 1..Len(d) |-> d[i].city]

\* C37: the weather data endpoint never returns more than limit records, the
\* limit being the one sent brought into 1..300.  In live mode only the first
\* limit locations of the catalog are asked for, in catalog order, and the
\* records returned are records of these; in file mode the records returned
\* are the first limit records of the snapshot.
C37_NoMoreThanLimit ==
    web.op = "get_weather_data" =>
        LET limit == EffectiveLimit(web.limit)
        IN  /\ Len(web.data) <= limit
            /\ IF web.live_mode
               THEN /\ Len(web.attempted) <= limit
                    /\ web.attempted = CitiesOf(FirstN(live.cache, Len(web.attempted)))
                    /\ Range(CitiesOf(web.data)) \subseteq Range(web.attempted)
                    /\ web.status = 200 <=> web.data # <<>>
               ELSE /\ web.attempted = <<>>
                    /\ web.status = 200 <=> ~load_weather_data.is_none
                    /\ web.status = 200 =>
                          web.data = FirstN(load_weather_data.dict, limit)

\* a request in live mode with limit 0, the catalog holding two locations: the
\* first location alone was asked for and its record returned
C37_Witness ==
    /\ web.op = "get_weather_data"
    /\ web.live_mode
    /\ web.limit = 0
    /\ Len(live.cache) = 2
    /\ web.status = 200
    /\ web.attempted = <<AllCities[1]>>
    /\ CitiesOf(web.data) = <<AllCities[1]>>

=============================================================================
